---- MODULE Spec2Model ----
(***************************************************************************)
(* Canonicalization and entity resolution of the graph-data-modeling PoC.  *)
(*                                                                         *)
(*  - scripts/dedupe_nodes_with_ollama.py : candidate generation, judge    *)
(*    driven evaluation loop with checkpoints, union-find clustering and   *)
(*    the cluster merge of nodes;                                          *)
(*  - scripts/run_stakeholder_extraction.py : CanonicalGraphBuilder, the   *)
(*    incremental canonical store with its final reconciliation;           *)
(*  - scripts/combine_eec_json_for_neo4j.py : the combine step's property  *)
(*    merge.                                                               *)
(*                                                                         *)
(* Text is modelled as a sequence of one-character strings, so that        *)
(* normalisation, prefixes, lengths, ordering and the similarity ratio are *)
(* computed and not assumed.                                               *)
(***************************************************************************)
EXTENDS Integers, Sequences, FiniteSets, TLC

VARIABLES
    nodes,                  \* dedupe: the node list read from NODES_JSON
    candidates,             \* dedupe: the list returned by _build_candidates
    judge,                  \* the external judge: pair -> outcome ("unasked" until drawn)
    pc,                     \* position of the modelled program
    idx,                    \* dedupe: position of the evaluation loop in candidates
    reviewed,               \* dedupe: reviewed list
    merge_edges,            \* dedupe: accepted merge edges
    cross_type_suggestions, \* dedupe: counter
    processed_pairs,        \* dedupe: set of pair keys already reviewed
    evaluated,              \* dedupe: candidates evaluated by this process
    prior_evaluated,        \* dedupe: evaluated count loaded from the checkpoint
    checkpoint,             \* dedupe: checkpoint.json on disk (NoCheckpoint if none)
    merge_map,              \* dedupe: the final merge map
    answers,                \* history: pair -> number of answers the judge returned
    cancels,                \* history: number of cancellations so far
    runs,                   \* history: number of completed runs of main()
    relationships,          \* the relationship list main() reads (and rewrites)
    store,                  \* canonical store: nodes, relationships, aliases, stats
    probe                   \* input and result of a single merge operation

vars == <<nodes, candidates, judge, pc, idx, reviewed, merge_edges,
          cross_type_suggestions, processed_pairs, evaluated, prior_evaluated,
          checkpoint, merge_map, answers, cancels, runs, relationships, store, probe>>

dedupeVars == <<nodes, candidates, judge, pc, idx, reviewed, merge_edges,
                cross_type_suggestions, processed_pairs, evaluated,
                prior_evaluated, checkpoint, merge_map, answers, cancels, runs>>

----------------------------------------------------------------------------
(* Text *)

\* The printable ASCII characters in code point order, from code 32 (three of
\* them by name).
Ascii ==
    <<
      " ", "!", "quote", "#", "$", "%", "&", "'", "(", ")", "*", "+",
      ",", "-", ".", "/", "0", "1", "2", "3", "4", "5", "6", "7",
      "8", "9", ":", ";", "<", "=", ">", "?", "@", "A", "B", "C",
      "D", "E", "F", "G", "H", "I", "J", "K", "L", "M", "N", "O",
      "P", "Q", "R", "S", "T", "U", "V", "W", "X", "Y", "Z", "[",
      "backslash", "]", "^", "_", "backtick", "a", "b", "c", "d", "e", "f", "g",
      "h", "i", "j", "k", "l", "m", "n", "o", "p", "q", "r", "s",
      "t", "u", "v", "w", "x", "y", "z", "{", "|", "}", "~"
    >>

\* ord(c)
CharCode ==
    [c \in {Ascii[i] : i \in 1..Len(Ascii)} |->
        31 + (CHOOSE i \in 1..Len(Ascii) : Ascii[i] = c)]

\* chr(n)
CharOf(n) == Ascii[n - 31]

\* str.lower() on one character.
LowerChar(c) ==
    IF CharCode[c] >= 65 /\ CharCode[c] <= 90 THEN CharOf(CharCode[c] + 32) ELSE c

\* str.upper() on one character.
UpperChar(c) ==
    IF CharCode[c] >= 97 /\ CharCode[c] <= 122 THEN CharOf(CharCode[c] - 32) ELSE c

Lower(s) == [i \in 1..Len(s) |-> LowerChar(s[i])]

Upper(s) == [i \in 1..Len(s) |-> UpperChar(s[i])]

IsLowerAlnum(c) == (CharCode[c] >= 97 /\ CharCode[c] <= 122) \/ (CharCode[c] >= 48 /\ CharCode[c] <= 57)

IsSpace(c) == c = " "

RECURSIVE StripLeft(_)
StripLeft(s) == IF s # <<>> /\ IsSpace(Head(s)) THEN StripLeft(Tail(s)) ELSE s

RECURSIVE StripRight(_)
StripRight(s) ==
    IF s # <<>> /\ IsSpace(s[Len(s)]) THEN StripRight(SubSeq(s, 1, Len(s) - 1)) ELSE s

\* str.strip()
Strip(s) == StripRight(StripLeft(s))

\* re.sub(r"\s+", " ", s)
RECURSIVE CollapseSpaces(_)
CollapseSpaces(s) ==
    IF Len(s) < 2 THEN s
    ELSE IF IsSpace(s[1]) /\ IsSpace(s[2]) THEN CollapseSpaces(Tail(s))
    ELSE <<s[1]>> \o CollapseSpaces(Tail(s))

\* _normalize_text of the dedupe script.
NormalizeText(value) ==
    LET lowered == Strip(Lower(value))
        spaced == [i \in 1..Len(lowered) |->
                      IF IsLowerAlnum(lowered[i]) \/ IsSpace(lowered[i])
                      THEN lowered[i] ELSE " "]
    IN  Strip(CollapseSpaces(spaced))

Codes(s) == [i \in 1..Len(s) |-> CharCode[s[i]]]

\* Python's ordering of two sequences of numbers (strings by code point).
RECURSIVE NatSeqLess(_, _)
NatSeqLess(a, b) ==
    IF b = <<>> THEN FALSE
    ELSE IF a = <<>> THEN TRUE
    ELSE IF Head(a) = Head(b) THEN NatSeqLess(Tail(a), Tail(b))
    ELSE Head(a) < Head(b)

StrLess(a, b) == NatSeqLess(Codes(a), Codes(b))

\* Python's ordering of two tuples of equal length whose components are strings
\* (given as their code sequences).
RECURSIVE KeyLess(_, _)
KeyLess(k1, k2) ==
    IF k1 = <<>> \/ k2 = <<>> THEN FALSE
    ELSE IF Head(k1) = Head(k2) THEN KeyLess(Tail(k1), Tail(k2))
    ELSE NatSeqLess(Head(k1), Head(k2))

\* list.sort(key=...) / sorted(key=...): stable, on items [k |-> key, v |-> value].
RECURSIVE InsertByKey(_, _)
InsertByKey(x, sorted) ==
    IF sorted = <<>> THEN <<x>>
    ELSE IF KeyLess(x.k, Head(sorted).k) THEN <<x>> \o sorted
    ELSE <<Head(sorted)>> \o InsertByKey(x, Tail(sorted))

RECURSIVE SortByKey(_)
SortByKey(s) ==
    IF s = <<>> THEN <<>>
    ELSE InsertByKey(s[Len(s)], SortByKey(SubSeq(s, 1, Len(s) - 1)))

Values(s) == [i \in 1..Len(s) |-> s[i].v]

RECURSIVE SeqOfSet(_)
SeqOfSet(S) == IF S = {} THEN <<>> ELSE LET x == CHOOSE y \in S : TRUE IN <<x>> \o SeqOfSet(S \ {x})

RangeOf(s) == {s[i] : i \in 1..Len(s)}

----------------------------------------------------------------------------
(* difflib.SequenceMatcher(None, a, b).ratio() *)

\* Length of the common run of a from i and b from j, inside a[..ahi], b[..bhi].
RECURSIVE RunLen(_, _, _, _, _, _)
RunLen(a, b, i, j, ahi, bhi) ==
    IF i > ahi \/ j > bhi \/ a[i] # b[j] THEN 0
    ELSE 1 + RunLen(a, b, i + 1, j + 1, ahi, bhi)

\* find_longest_match(alo, ahi, blo, bhi): the longest block, earliest in a, then in b.
LongestMatch(a, b, alo, ahi, blo, bhi) ==
    LET starts == (alo..ahi) \X (blo..bhi)
        len(p) == RunLen(a, b, p[1], p[2], ahi, bhi)
        best == CHOOSE p \in starts :
                    \A q \in starts :
                        \/ len(q) < len(p)
                        \/ /\ len(q) = len(p)
                           /\ (p[1] < q[1] \/ (p[1] = q[1] /\ p[2] <= q[2]))
    IN  [i |-> best[1], j |-> best[2], k |-> len(best)]

\* Sum of the sizes of get_matching_blocks().
RECURSIVE MatchCount(_, _, _, _, _, _)
MatchCount(a, b, alo, ahi, blo, bhi) ==
    IF alo > ahi \/ blo > bhi THEN 0
    ELSE LET m == LongestMatch(a, b, alo, ahi, blo, bhi)
         IN  IF m.k = 0 THEN 0
             ELSE m.k + MatchCount(a, b, alo, m.i - 1, blo, m.j - 1)
                      + MatchCount(a, b, m.i + m.k, ahi, m.j + m.k, bhi)

\* _similarity(a, b) as the exact fraction [num, den] = 2*M / T (1 when T = 0).
Similarity(a, b) ==
    IF Len(a) + Len(b) = 0 THEN [num |-> 1, den |-> 1]
    ELSE [num |-> 2 * MatchCount(a, b, 1, Len(a), 1, Len(b)), den |-> Len(a) + Len(b)]

----------------------------------------------------------------------------
(* scripts/dedupe_nodes_with_ollama.py : configuration *)

SIMILARITY_THRESHOLD_PCT == 90
CROSS_TYPE_EXACT_MATCH == TRUE
ALLOW_CROSS_TYPE_MERGE == FALSE
CONFIDENCE_THRESHOLD_PCT == 85
CHECKPOINT_EVERY == 1
PREFIX_LEN == 4
MIN_NAME_LEN == 4
MAX_BUCKET_SIZE == 400
MAX_CANDIDATES_PER_NODE == 25
MAX_TOTAL_CANDIDATES == 8000
RETRY_COUNT == 1

LABEL_GROUPS == {"Entity", "Event", "Concept"}

\* Position of a label in Python's string order, for the labels of the model.
LabelRank == [l \in {"Concept", "Entity", "Event", "Pump", "Unknown"} |->
                CASE l = "Concept" -> 1 [] l = "Entity" -> 2 [] l = "Event" -> 3
                  [] l = "Pump" -> 4 [] l = "Unknown" -> 5]

Min2(a, b) == IF a <= b THEN a ELSE b
Max2(a, b) == IF a >= b THEN a ELSE b

RECURSIVE LabelGroup(_)
LabelGroup(labels) ==
    IF labels = <<>> THEN "Unknown"
    ELSE IF Head(labels) \in LABEL_GROUPS THEN Head(labels)
    ELSE LabelGroup(Tail(labels))

\* tuple(sorted((a_id, b_id)))
PairKey(a_id, b_id) == IF StrLess(b_id, a_id) THEN <<b_id, a_id>> ELSE <<a_id, b_id>>

\* The record _build_candidates derives from one node (lines 162-180).
RecordOf(node) ==
    LET name == IF node.properties.name # <<>> THEN node.properties.name ELSE node.id
        nn == NormalizeText(name)
    IN  [id |-> node.id,
         labels |-> node.labels,
         group |-> LabelGroup(node.labels),
         name |-> name,
         description |-> node.properties.description,
         domain |-> node.properties.domain,
         name_norm |-> IF nn # <<>> THEN nn ELSE NormalizeText(node.id),
         desc_norm |-> NormalizeText(node.properties.description)]

RECURSIVE Records(_)
Records(nodeList) ==
    IF nodeList = <<>> THEN <<>>
    ELSE (IF Head(nodeList).id = <<>> THEN <<>> ELSE <<RecordOf(Head(nodeList))>>)
         \o Records(Tail(nodeList))

\* record_by_id[id]: the last record listed with that id.
RecordById(records, id) ==
    LET last == CHOOSE i \in 1..Len(records) :
                    records[i].id = id /\ \A j \in (i + 1)..Len(records) : records[j].id # id
    IN  records[last]

BucketKey(record) ==
    <<record.group, record.domain, SubSeq(record.name_norm, 1, Min2(PREFIX_LEN, Len(record.name_norm)))>>

BucketKeyCodes(key) == <<<<LabelRank[key[1]]>>, Codes(key[2]), Codes(key[3])>>

\* The members of the sequence s whose image under BucketKey is key, in order.
RECURSIVE BucketMembers(_, _)
BucketMembers(records, key) ==
    IF records = <<>> THEN <<>>
    ELSE (IF BucketKey(Head(records)) = key THEN <<Head(records)>> ELSE <<>>)
         \o BucketMembers(Tail(records), key)

\* sorted(buckets.keys())
SortedBucketKeys(records) ==
    LET keys == SeqOfSet({BucketKey(records[i]) : i \in 1..Len(records)})
    IN  Values(SortByKey([i \in 1..Len(keys) |-> [k |-> BucketKeyCodes(keys[i]), v |-> keys[i]]]))

\* The bucket left in the order in which the nodes were listed.
SortBucketUnsorted(bucket) == bucket

\* bucket.sort(key=lambda item: (item["name_norm"], item["id"]))
SortBucket(bucket) ==
    Values(SortByKey([i \in 1..Len(bucket) |->
        [k |-> <<Codes(bucket[i].name_norm), Codes(bucket[i].id)>>, v |-> bucket[i]]]))

\* items.sort(key=lambda item: (item["group"], item["id"]))
SortItems(items) ==
    Values(SortByKey([i \in 1..Len(items) |->
        [k |-> <<<<LabelRank[items[i].group]>>, Codes(items[i].id)>>, v |-> items[i]]]))

\* The index pairs (i, j), i < j, in the order of the two nested loops.
IndexPairs(n) ==
    LET ps == SeqOfSet({p \in (1..n) \X (1..n) : p[1] < p[2]})
    IN  Values(SortByKey([i \in 1..Len(ps) |-> [k |-> <<<<ps[i][1]>>, <<ps[i][2]>>>>, v |-> ps[i]]]))

\* round(score, 4), in ten-thousandths.
Round4(sim) == (2 * sim.num * 10000 + sim.den) \div (2 * sim.den)

PerNode(st, id) == IF id \in DOMAIN st.per_node THEN st.per_node[id] ELSE 0

\* One iteration of the inner loop of the same-bucket pass (lines 201-229).
SameBucketStep(st, a, b, cfg) ==
    LET key == PairKey(a.id, b.id)
        score == Similarity(a.name_norm, b.name_norm)
    IN  IF Len(st.candidates) >= cfg.max_total THEN st
        ELSE IF PerNode(st, a.id) >= cfg.max_per_node THEN st
        ELSE IF PerNode(st, b.id) >= cfg.max_per_node THEN st
        ELSE IF a.id = b.id THEN st
        ELSE IF key \in st.seen THEN st
        ELSE IF Len(a.name_norm) < MIN_NAME_LEN \/ Len(b.name_norm) < MIN_NAME_LEN THEN st
        ELSE IF score.num * 100 < SIMILARITY_THRESHOLD_PCT * score.den THEN st
        ELSE [candidates |-> Append(st.candidates,
                                [node_a |-> a.id, node_b |-> b.id,
                                 reason |-> "same_group_bucket",
                                 name_similarity |-> Round4(score)]),
              seen |-> st.seen \cup {key},
              per_node |-> (a.id :> (PerNode(st, a.id) + 1)) @@
                           (b.id :> (PerNode(st, b.id) + 1)) @@ st.per_node]

RECURSIVE SameBucketPairs(_, _, _, _)
SameBucketPairs(st, bucket, pairs, cfg) ==
    IF pairs = <<>> THEN st
    ELSE SameBucketPairs(SameBucketStep(st, bucket[Head(pairs)[1]], bucket[Head(pairs)[2]], cfg),
                         bucket, Tail(pairs), cfg)

\* The loop over the sorted bucket keys (lines 194-233).
RECURSIVE SameBucketPass(_, _, _, _)
SameBucketPass(st, keys, records, cfg) ==
    IF keys = <<>> THEN st
    ELSE LET bucket == BucketMembers(records, Head(keys))
             next == IF Len(bucket) > cfg.max_bucket THEN st
                     ELSE SameBucketPairs(st, SortBucket(bucket), IndexPairs(Len(bucket)), cfg)
         IN  SameBucketPass(next, Tail(keys), records, cfg)

\* One iteration of the inner loop of the cross-type pass (lines 249-262).
CrossTypeStep(st, a, b, cfg) ==
    LET key == PairKey(a.id, b.id)
    IN  IF Len(st.candidates) >= cfg.max_total THEN st
        ELSE IF key \in st.seen THEN st
        ELSE [st EXCEPT !.candidates = Append(@, [node_a |-> a.id, node_b |-> b.id,
                                                 reason |-> "cross_type_exact_name",
                                                 name_similarity |-> 10000]),
                        !.seen = @ \cup {key}]

RECURSIVE CrossTypePairs(_, _, _, _)
CrossTypePairs(st, items, pairs, cfg) ==
    IF pairs = <<>> THEN st
    ELSE CrossTypePairs(CrossTypeStep(st, items[Head(pairs)[1]], items[Head(pairs)[2]], cfg),
                        items, Tail(pairs), cfg)

RECURSIVE NameMembers(_, _)
NameMembers(records, name_norm) ==
    IF records = <<>> THEN <<>>
    ELSE (IF Head(records).name_norm = name_norm THEN <<Head(records)>> ELSE <<>>)
         \o NameMembers(Tail(records), name_norm)

SortedNames(records) ==
    LET names == SeqOfSet({records[i].name_norm : i \in 1..Len(records)} \ {<<>>})
    IN  Values(SortByKey([i \in 1..Len(names) |-> [k |-> <<Codes(names[i])>>, v |-> names[i]]]))

\* The loop over the sorted normalized names (lines 241-266).
RECURSIVE CrossTypePass(_, _, _, _)
CrossTypePass(st, names, records, cfg) ==
    IF names = <<>> THEN st
    ELSE LET items == NameMembers(records, Head(names))
             groups == {items[i].group : i \in 1..Len(items)}
             next == IF Cardinality(groups) <= 1 THEN st
                     ELSE CrossTypePairs(st, SortItems(items), IndexPairs(Len(items)), cfg)
         IN  CrossTypePass(next, Tail(names), records, cfg)

\* _build_candidates, with the three caps as parameters.
BuildCandidatesCfg(nodeList, cfg) ==
    LET records == Records(nodeList)
        st0 == [candidates |-> <<>>, seen |-> {}, per_node |-> <<>>]
        st1 == SameBucketPass(st0, SortedBucketKeys(records), records, cfg)
        st2 == IF CROSS_TYPE_EXACT_MATCH
               THEN CrossTypePass(st1, SortedNames(records), records, cfg)
               ELSE st1
    IN  st2.candidates

Config == [max_bucket |-> MAX_BUCKET_SIZE,
           max_per_node |-> MAX_CANDIDATES_PER_NODE,
           max_total |-> MAX_TOTAL_CANDIDATES]

BuildCandidates(nodeList) == BuildCandidatesCfg(nodeList, Config)

----------------------------------------------------------------------------
(* scripts/dedupe_nodes_with_ollama.py : the external judge *)

\* What one HTTP attempt can produce.  kind: "transport_error" (URLError/HTTPError),
\* "timeout" (the TimeoutError urlopen raises when the response does not arrive
\* within OLLAMA_TIMEOUT_SECONDS), "not_json" (JSONDecodeError), "not_object" (a
\* JSON value that is no object), "object" (a JSON object, whatever its fields).
\* same is the JSON value of the field: "true", "false", "string" (a non-empty
\* string) or "null" (absent); confidence is a percentage when numeric holds,
\* and a JSON string that is no number otherwise; empty marks the object {}.
Attempt(kind, empty, same, confidence) ==
    [kind |-> kind, empty |-> empty, same |-> same, confidence |-> confidence,
     numeric |-> TRUE]

TransportError == Attempt("transport_error", FALSE, "null", 0)
NotObject == Attempt("not_object", FALSE, "null", 0)
NoneResult == Attempt("none", FALSE, "null", 0)
EmptyObject == Attempt("object", TRUE, "null", 0)
Verdict(same, confidence) == Attempt("object", FALSE, same, confidence)
Timeout == Attempt("timeout", FALSE, "null", 0)
TextConfidence(same) == [Verdict(same, 0) EXCEPT !.numeric = FALSE]

\* The loop of _evaluate_with_ollama over the attempts the judge answers with
\* (lines 142-154): the first JSON object is returned, the exceptions of line
\* 151 are swallowed, RuntimeError (error) is raised after RETRY_COUNT + 1
\* attempts, and an exception line 151 does not name leaves the function
\* (raised).
RECURSIVE TryAttempts(_, _)
TryAttempts(attempts, tried) ==
    IF tried >= RETRY_COUNT + 1 \/ attempts = <<>>
    THEN [result |-> NoneResult, error |-> TRUE, raised |-> FALSE, calls |-> tried]
    ELSE IF Head(attempts).kind = "object"
    THEN [result |-> Head(attempts), error |-> FALSE, raised |-> FALSE, calls |-> tried + 1]
    ELSE IF Head(attempts).kind = "timeout"
    THEN [result |-> NoneResult, error |-> FALSE, raised |-> TRUE, calls |-> tried + 1]
    ELSE TryAttempts(Tail(attempts), tried + 1)

EvaluateWithOllama(attempts) == TryAttempts(attempts, 0)

\* bool(result.get("same"))
BoolOf(same) == same \in {"true", "string"}

\* `not result`
IsFalsy(result) == result.kind = "none" \/ result.empty

\* The iteration for this answer ends in an exception main() does not catch:
\* one that left _evaluate_with_ollama (line 458 catches RuntimeError only), or
\* the ValueError of float() on a confidence that is no number (line 490).
EvalRaises(outcome) ==
    \E call \in {EvaluateWithOllama(outcome)} :
        \/ call.raised
        \/ ~call.error /\ ~IsFalsy(call.result) /\ ~call.result.numeric

----------------------------------------------------------------------------
(* scripts/dedupe_nodes_with_ollama.py : evaluation loop, checkpoint, resume *)

NoCheckpoint ==
    [written |-> FALSE, reviewed |-> <<>>, merge_edges |-> <<>>,
     cross_type_suggestions |-> 0, candidates_total |-> 0, evaluated |-> 0]

\* checkpoint_state (lines 504-510 and 516-522), as _write_checkpoint stores it.
CheckpointStateStale(st, total) ==
    [written |-> TRUE,
     reviewed |-> SubSeq(st.reviewed, 1, Len(st.reviewed) - 1),
     merge_edges |-> st.merge_edges,
     cross_type_suggestions |-> st.cross_type_suggestions,
     candidates_total |-> total,
     evaluated |-> st.prior_evaluated + st.evaluated]

CheckpointState(st, total) ==
    [written |-> TRUE,
     reviewed |-> st.reviewed,
     merge_edges |-> st.merge_edges,
     cross_type_suggestions |-> st.cross_type_suggestions,
     candidates_total |-> total,
     evaluated |-> st.prior_evaluated + st.evaluated]

FreshRun ==
    [reviewed |-> <<>>, merge_edges |-> <<>>, cross_type_suggestions |-> 0,
     processed_pairs |-> {}, evaluated |-> 0, prior_evaluated |-> 0,
     checkpoint |-> NoCheckpoint]

\* One iteration of the evaluation loop for a candidate that is not yet
\* processed (lines 443-512); outcome is what the judge answers for the pair.
EvalStep(st, candidate, outcome, records, total) ==
    LET node_a == RecordById(records, candidate.node_a)
        node_b == RecordById(records, candidate.node_b)
        call == EvaluateWithOllama(outcome)
        item == [node_a |-> node_a.id, node_b |-> node_b.id,
                 labels_a |-> node_a.labels, labels_b |-> node_b.labels,
                 name_a |-> node_a.name, name_b |-> node_b.name,
                 reason |-> candidate.reason,
                 name_similarity |-> candidate.name_similarity,
                 llm |-> call.result, error |-> call.error]
        base == [st EXCEPT !.reviewed = Append(@, item),
                           !.processed_pairs = @ \cup {PairKey(candidate.node_a, candidate.node_b)},
                           !.evaluated = @ + 1]
        same == BoolOf(call.result.same)
        confidence == call.result.confidence
        withEdge == [base EXCEPT !.merge_edges = Append(@, <<node_a.id, node_b.id>>)]
    IN  IF IsFalsy(call.result) \/ call.error THEN base
        ELSE IF ~same \/ confidence < CONFIDENCE_THRESHOLD_PCT THEN base
        ELSE IF node_a.group # node_b.group /\ ~ALLOW_CROSS_TYPE_MERGE
        THEN [base EXCEPT !.cross_type_suggestions = @ + 1]
        ELSE IF withEdge.evaluated % Max2(1, CHECKPOINT_EVERY) = 0
        THEN [withEdge EXCEPT !.checkpoint = CheckpointState(withEdge, total)]
        ELSE withEdge

\* A resume that loads the reviewed pairs and leaves processed_pairs empty.
LoadCheckpointNoPairs(cp) ==
    [reviewed |-> cp.reviewed,
     merge_edges |-> cp.merge_edges,
     cross_type_suggestions |-> cp.cross_type_suggestions,
     processed_pairs |-> {},
     evaluated |-> 0,
     prior_evaluated |-> cp.evaluated,
     checkpoint |-> cp]

\* The state main() starts the loop with when RESUME_FROM names a checkpoint
\* (lines 414-420).
LoadCheckpoint(cp) ==
    [reviewed |-> cp.reviewed,
     merge_edges |-> cp.merge_edges,
     cross_type_suggestions |-> cp.cross_type_suggestions,
     processed_pairs |-> {PairKey(cp.reviewed[i].node_a, cp.reviewed[i].node_b) :
                             i \in 1..Len(cp.reviewed)},
     evaluated |-> 0,
     prior_evaluated |-> cp.evaluated,
     checkpoint |-> cp]

\* The write after the loop (lines 514-523).
FinalCheckpoint(st, total) ==
    IF st.evaluated > 0 THEN [st EXCEPT !.checkpoint = CheckpointState(st, total)] ELSE st

\* The whole evaluation loop (lines 439-512) for a judge that answers each pair
\* with judgeOf[pair].
RECURSIVE EvaluationLoop(_, _, _, _, _)
EvaluationLoop(st, cands, judgeOf, records, total) ==
    IF cands = <<>> THEN st
    ELSE LET key == PairKey(Head(cands).node_a, Head(cands).node_b)
         IN  IF key \in st.processed_pairs
             THEN EvaluationLoop(st, Tail(cands), judgeOf, records, total)
             ELSE EvaluationLoop(EvalStep(st, Head(cands), judgeOf[key], records, total),
                                 Tail(cands), judgeOf, records, total)

----------------------------------------------------------------------------
(* scripts/dedupe_nodes_with_ollama.py : clusters and merges *)

NodeScore(record) == Len(record.name) + Len(record.description) + Len(record.labels)

\* parent is [keys |-> ids in insertion order, p |-> id -> parent id].
WithKey(parent, x) ==
    IF x \in DOMAIN parent.p THEN parent
    ELSE [keys |-> Append(parent.keys, x), p |-> (x :> x) @@ parent.p]

\* find(x) with its path compression: the root and the parent map it leaves.
RECURSIVE Find(_, _)
Find(parent, x) ==
    LET p0 == WithKey(parent, x)
    IN  IF p0.p[x] # x
        THEN LET up == Find(p0, p0.p[x])
             IN  [root |-> up.root, parent |-> [up.parent EXCEPT !.p[x] = up.root]]
        ELSE [root |-> x, parent |-> p0]

UnionNoFind(parent, x, y) ==
    LET px == WithKey(WithKey(parent, x), y)
    IN  IF x # y THEN [px EXCEPT !.p[y] = x] ELSE px

Union(parent, x, y) ==
    LET fx == Find(parent, x)
        fy == Find(fx.parent, y)
    IN  IF fx.root # fy.root THEN [fy.parent EXCEPT !.p[fy.root] = fx.root] ELSE fy.parent

RECURSIVE UnionAll(_, _)
UnionAll(parent, edges) ==
    IF edges = <<>> THEN parent
    ELSE UnionAll(Union(parent, Head(edges)[1], Head(edges)[2]), Tail(edges))

\* The parent map as the unions left it, without the find of line 294.
UnionFindParents(edges) ==
    LET parent == UnionAll([keys |-> <<>>, p |-> <<>>], edges)
    IN  [keys |-> parent.keys, root |-> parent.p]

\* _union_find(edges): [keys |-> ids in insertion order, root |-> id -> root].
UnionFind(edges) ==
    LET parent == UnionAll([keys |-> <<>>, p |-> <<>>], edges)
    IN  [keys |-> parent.keys,
         root |-> [x \in DOMAIN parent.p |-> Find(parent, x).root]]

\* max(members, key=score): the first member with the greatest score.
FirstMax(members, records) ==
    LET best == CHOOSE i \in 1..Len(members) :
                    /\ \A j \in 1..Len(members) :
                          NodeScore(RecordById(records, members[j]))
                              <= NodeScore(RecordById(records, members[i]))
                    /\ \A j \in 1..(i - 1) :
                          NodeScore(RecordById(records, members[j]))
                              < NodeScore(RecordById(records, members[i]))
    IN  members[best]

\* groups[root], in the order the ids were inserted.
RECURSIVE GroupMembers(_, _, _)
GroupMembers(keys, root, r) ==
    IF keys = <<>> THEN <<>>
    ELSE (IF root[Head(keys)] = r THEN <<Head(keys)>> ELSE <<>>)
         \o GroupMembers(Tail(keys), root, r)

\* The merge map main() builds from the accepted edges (lines 525-535).
BuildMergeMap(edges, records) ==
    LET uf == UnionFind(edges)
        canonical(x) == FirstMax(GroupMembers(uf.keys, uf.root, uf.root[x]), records)
    IN  [x \in {y \in DOMAIN uf.root : canonical(y) # y} |-> canonical(x)]

\* merge_map.get(node_id, node_id)
Resolve(map, id) == IF id \in DOMAIN map THEN map[id] ELSE id

IsEmptyValue(v) == v = <<>>

\* sorted(set(existing).union(labels))
SortedLabels(labelSet) ==
    LET ls == SeqOfSet(labelSet)
    IN  Values(SortByKey([i \in 1..Len(ls) |-> [k |-> <<<<LabelRank[ls[i]]>>>>, v |-> ls[i]]]))

\* The fold of one more node into merged[canonical_id] (lines 315-319).
MergeNodeInto(existing, node) ==
    [id |-> existing.id,
     labels |-> SortedLabels(RangeOf(existing.labels) \cup RangeOf(node.labels)),
     properties |-> [k \in DOMAIN existing.properties \cup DOMAIN node.properties |->
                        IF /\ k \in DOMAIN node.properties
                           /\ \/ k \notin DOMAIN existing.properties
                              \/ IsEmptyValue(existing.properties[k])
                        THEN node.properties[k] ELSE existing.properties[k]]]

\* The loop of _merge_nodes: merged is the list of merged nodes in insertion order.
RECURSIVE MergeNodesLoop(_, _, _)
MergeNodesLoop(merged, nodeList, map) ==
    IF nodeList = <<>> THEN merged
    ELSE LET node == Head(nodeList)
             cid == Resolve(map, node.id)
             at == {i \in 1..Len(merged) : merged[i].id = cid}
             next == IF node.id = <<>> THEN merged
                     ELSE IF at = {}
                     THEN Append(merged, [id |-> cid, labels |-> node.labels,
                                          properties |-> node.properties])
                     ELSE LET i == CHOOSE j \in at : TRUE
                          IN  [merged EXCEPT ![i] = MergeNodeInto(@, node)]
         IN  MergeNodesLoop(next, Tail(nodeList), map)

\* _merge_nodes(nodes, merge_map)
MergeNodes(nodeList, map) ==
    LET merged == MergeNodesLoop(<<>>, nodeList, map)
    IN  Values(SortByKey([i \in 1..Len(merged) |-> [k |-> <<Codes(merged[i].id)>>, v |-> merged[i]]]))

RelPropertyKeys == {"description", "evidence"}
TemporalKeys == {"start"}

\* (source, type, target) after the merge map is applied (lines 331-338).
RelKey(rel, map) == <<Resolve(map, rel.source), rel.type, Resolve(map, rel.target)>>

\* The fold of one more relationship into merged[key] (lines 355-362).
MergeRelationshipInto(existing, rel) ==
    [existing EXCEPT
        !.properties = [k \in RelPropertyKeys |->
                           IF IsEmptyValue(existing.properties[k])
                           THEN rel.properties[k] ELSE existing.properties[k]],
        !.temporal_info = [k \in TemporalKeys |->
                              IF IsEmptyValue(existing.temporal_info[k])
                              THEN rel.temporal_info[k] ELSE existing.temporal_info[k]]]

\* The loop of _merge_relationships: merged is in insertion order.
RECURSIVE MergeRelationshipsLoop(_, _, _)
MergeRelationshipsLoop(merged, rels, map) ==
    IF rels = <<>> THEN merged
    ELSE LET rel == Head(rels)
             key == RelKey(rel, map)
             at == {i \in 1..Len(merged) : RelKey(merged[i], <<>>) = key}
             next == IF key[1] = <<>> \/ key[2] = <<>> \/ key[3] = <<>> THEN merged
                     ELSE IF at = {}
                     THEN Append(merged, [source |-> key[1], target |-> key[3], type |-> key[2],
                                          properties |-> rel.properties,
                                          temporal_info |-> rel.temporal_info])
                     ELSE LET i == CHOOSE j \in at : TRUE
                          IN  [merged EXCEPT ![i] = MergeRelationshipInto(@, rel)]
         IN  MergeRelationshipsLoop(next, Tail(rels), map)

\* _merge_relationships(relationships, merge_map)
MergeRelationships(rels, map) ==
    LET merged == MergeRelationshipsLoop(<<>>, rels, map)
    IN  Values(SortByKey([i \in 1..Len(merged) |->
            [k |-> <<Codes(merged[i].source), Codes(merged[i].type), Codes(merged[i].target)>>,
             v |-> merged[i]]]))


----------------------------------------------------------------------------
(* The dedupe run: inputs *)

MaxCancels == 1

Id1 == <<"n", "1">>
Id2 == <<"n", "2">>
Id3 == <<"n", "3">>
Id4 == <<"n", "4">>

NameValve == <<"v", "a", "l", "v", "e">>
NameValves == <<"v", "a", "l", "v", "e", "s">>
NameValvess == <<"v", "a", "l", "v", "e", "s", "s">>
NameValveRaw == <<"V", "a", "l", "v", "e", "-">>

DedupeNode(id, labels, name, description) ==
    [id |-> id, labels |-> labels,
     properties |-> [name |-> name, description |-> description, domain |-> <<>>]]

PoolNames1 == {NameValve, NameValveRaw}
PoolNames2 == {NameValve, NameValves}
PoolNames3 == {NameValve, NameValves, NameValvess}
PoolLabels == {<<"Entity">>, <<"Concept">>}

\* The node lists the evaluation runs are started on.
DedupePools ==
    {<<DedupeNode(Id1, l1, n1, <<>>), DedupeNode(Id2, l2, n2, <<>>), DedupeNode(Id3, l3, n3, <<>>)>> :
        <<l1, l2, l3, n1, n2, n3>> \in
            PoolLabels \X PoolLabels \X PoolLabels \X PoolNames1 \X PoolNames2 \X PoolNames3}

\* What the judge can answer for one pair: the attempts in order.
JudgeOutcomes ==
    {<<Verdict("true", 92)>>, <<Verdict("true", 80)>>, <<Verdict("false", 95)>>,
     <<Verdict("string", 90)>>, <<EmptyObject>>,
     <<TransportError, Verdict("true", 92)>>, <<TransportError, NotObject>>,
     <<NotObject, TransportError, Verdict("true", 92)>>,
     <<TransportError, Timeout>>, <<TextConfidence("false")>>}

Unasked == <<>>

AllPairKeys(nodeList) ==
    {PairKey(nodeList[i].id, nodeList[j].id) : <<i, j>> \in
        {p \in (1..Len(nodeList)) \X (1..Len(nodeList)) : nodeList[p[1]].id # nodeList[p[2]].id}}

NoStore == [phase |-> "unused"]
NoProbe == [op |-> "unused"]

RunState ==
    [reviewed |-> reviewed, merge_edges |-> merge_edges,
     cross_type_suggestions |-> cross_type_suggestions,
     processed_pairs |-> processed_pairs, evaluated |-> evaluated,
     prior_evaluated |-> prior_evaluated, checkpoint |-> checkpoint]

SetRunState(st) ==
    /\ reviewed' = st.reviewed
    /\ merge_edges' = st.merge_edges
    /\ cross_type_suggestions' = st.cross_type_suggestions
    /\ processed_pairs' = st.processed_pairs
    /\ evaluated' = st.evaluated
    /\ prior_evaluated' = st.prior_evaluated
    /\ checkpoint' = st.checkpoint

----------------------------------------------------------------------------
(* The dedupe run: main() step by step, with cancellation and resume *)

\* main() up to the evaluation loop of a fresh run (RESUME_FROM = "").
Init ==
    /\ nodes \in DedupePools
    /\ candidates = BuildCandidates(nodes)
    /\ judge = [p \in AllPairKeys(nodes) |-> Unasked]
    /\ pc = "loop"
    /\ idx = 1
    /\ reviewed = <<>>
    /\ merge_edges = <<>>
    /\ cross_type_suggestions = 0
    /\ processed_pairs = {}
    /\ evaluated = 0
    /\ prior_evaluated = 0
    /\ checkpoint = NoCheckpoint
    /\ merge_map = <<>>
    /\ answers = [p \in AllPairKeys(nodes) |-> 0]
    /\ cancels = 0
    /\ runs = 0
    /\ relationships = <<>>
    /\ store = NoStore
    /\ probe = NoProbe

CurrentPair == PairKey(candidates[idx].node_a, candidates[idx].node_b)

\* Lines 440-442: a candidate whose pair was loaded from the checkpoint.
SkipProcessed ==
    /\ pc = "loop"
    /\ idx <= Len(candidates)
    /\ CurrentPair \in processed_pairs
    /\ idx' = idx + 1
    /\ UNCHANGED <<nodes, candidates, judge, pc, reviewed, merge_edges,
                   cross_type_suggestions, processed_pairs, evaluated,
                   prior_evaluated, checkpoint, merge_map, answers, cancels,
                   runs, relationships, store, probe>>

\* Lines 443-512: the judge is asked and the candidate is reviewed.  The judge
\* answers a pair it was asked before as it did then.  An exception main()
\* does not catch ends the process: what it held in memory is gone, the files
\* it wrote stay.
EvaluateCandidate ==
    /\ pc = "loop"
    /\ idx <= Len(candidates)
    /\ CurrentPair \notin processed_pairs
    /\ \E outcome \in (IF judge[CurrentPair] = Unasked THEN JudgeOutcomes
                       ELSE {judge[CurrentPair]}) :
          /\ judge' = [judge EXCEPT ![CurrentPair] = outcome]
          /\ IF EvalRaises(outcome)
             THEN /\ pc' = "aborted"
                  /\ idx' = 1
                  /\ answers' = answers
                  /\ SetRunState([FreshRun EXCEPT !.checkpoint = checkpoint])
             ELSE /\ pc' = pc
                  /\ idx' = idx + 1
                  /\ answers' = [answers EXCEPT ![CurrentPair] =
                                    IF EvaluateWithOllama(outcome).error THEN @ ELSE @ + 1]
                  /\ SetRunState(EvalStep(RunState, candidates[idx], outcome,
                                          Records(nodes), Len(candidates)))
    /\ UNCHANGED <<nodes, candidates, merge_map, cancels, runs, relationships, store, probe>>

\* Lines 514-553: the last checkpoint, the clusters and the merge map.
FinishRun ==
    /\ pc = "loop"
    /\ idx > Len(candidates)
    /\ SetRunState(FinalCheckpoint(RunState, Len(candidates)))
    /\ merge_map' = BuildMergeMap(merge_edges, Records(nodes))
    /\ pc' = "done"
    /\ runs' = runs + 1
    /\ UNCHANGED <<nodes, candidates, judge, idx, answers, cancels, relationships,
                   store, probe>>

\* The process is stopped between two iterations: what it held in memory is
\* gone, the files it wrote stay.
Cancel ==
    /\ pc = "loop"
    /\ cancels < MaxCancels
    /\ cancels' = cancels + 1
    /\ pc' = "cancelled"
    /\ SetRunState([FreshRun EXCEPT !.checkpoint = checkpoint])
    /\ idx' = 1
    /\ UNCHANGED <<nodes, candidates, judge, merge_map, answers, runs, relationships, store, probe>>

\* main() up to the evaluation loop with RESUME_FROM naming the checkpoint
\* (lines 396-437).
Resume ==
    /\ pc = "cancelled"
    /\ checkpoint.written
    /\ SetRunState(LoadCheckpoint(checkpoint))
    /\ idx' = 1
    /\ pc' = "loop"
    /\ UNCHANGED <<nodes, candidates, judge, merge_map, answers, cancels, runs, relationships, store, probe>>

Next == SkipProcessed \/ EvaluateCandidate \/ FinishRun \/ Cancel \/ Resume

Spec == Init /\ [][Next]_vars

----------------------------------------------------------------------------
(* Claims on the dedupe run *)

\* The run that is never cancelled, over the same candidates and judge answers.
Uninterrupted == EvaluationLoop(FreshRun, candidates, judge, Records(nodes), Len(candidates))

\* C1: a run that was cancelled and resumed from the checkpoint ends with the
\* merge edges (in order), the cross-type-suggestion count and the merge map of
\* the run that is never cancelled.
C1_ResumeEquivalence ==
    pc = "done" =>
        /\ merge_edges = Uninterrupted.merge_edges
        /\ cross_type_suggestions = Uninterrupted.cross_type_suggestions
        /\ merge_map = BuildMergeMap(Uninterrupted.merge_edges, Records(nodes))

\* A finished run that was cancelled, resumed with reviewed pairs loaded from the
\* checkpoint, evaluated further pairs and accepted a merge.
C1_Witness ==
    /\ pc = "done"
    /\ cancels > 0
    /\ prior_evaluated > 0
    /\ evaluated > 0
    /\ merge_map # <<>>
    /\ cross_type_suggestions > 0

HasAcceptedVerdict(edge) ==
    \E i \in 1..Len(reviewed) :
        /\ reviewed[i].node_a = edge[1]
        /\ reviewed[i].node_b = edge[2]
        /\ ~reviewed[i].error
        /\ reviewed[i].llm.kind = "object"
        /\ reviewed[i].llm.same = "true"
        /\ reviewed[i].llm.confidence >= CONFIDENCE_THRESHOLD_PCT

\* C2: every merge edge belongs to a reviewed pair whose judge call returned,
\* without error, a verdict with same == true and confidence >= the threshold.
C2_VerdictGating ==
    \A k \in 1..Len(merge_edges) : HasAcceptedVerdict(merge_edges[k])

\* C9: across cancellation and resume no pair the judge has answered is sent to
\* the judge again, and no merge edge is recorded twice.
C9_CancellationSafety ==
    /\ \A p \in DOMAIN answers : answers[p] <= 1
    /\ \A i, j \in 1..Len(merge_edges) : i # j => merge_edges[i] # merge_edges[j]

\* C10: after every CHECKPOINT_EVERY-th evaluated candidate, whatever its
\* verdict, the checkpoint on disk holds every pair reviewed so far, all accepted
\* merge edges, the cross-type-suggestion counter and the total candidate count.
C10_CheckpointCadence ==
    (pc = "loop" /\ evaluated > 0 /\ evaluated % Max2(1, CHECKPOINT_EVERY) = 0) =>
        /\ checkpoint.written
        /\ checkpoint.reviewed = reviewed
        /\ checkpoint.merge_edges = merge_edges
        /\ checkpoint.cross_type_suggestions = cross_type_suggestions
        /\ checkpoint.candidates_total = Len(candidates)

\* The step evaluated one more candidate.
EvaluatedOne == pc = "loop" /\ evaluated' = evaluated + 1

\* The groups of the two nodes of a reviewed item differ.
CrossGroup(item) == LabelGroup(item.labels_a) # LabelGroup(item.labels_b)

\* The judge call of a reviewed item returned a verdict with same == true and
\* confidence >= the threshold.
SameVerdict(item) ==
    /\ ~item.error
    /\ item.llm.kind = "object"
    /\ ~item.llm.empty
    /\ item.llm.same = "true"
    /\ item.llm.confidence >= CONFIDENCE_THRESHOLD_PCT

\* C12: with cross-group merging disabled, the evaluation of a candidate whose
\* nodes are of different groups and whose verdict is same == true with
\* confidence >= the threshold adds no merge edge and adds 1 to
\* cross_type_suggestions; every other evaluation leaves the counter as it was.
C12_CrossGroupGating ==
    [][EvaluatedOne =>
          \A item \in {reviewed'[Len(reviewed')]} :
              IF CrossGroup(item) /\ SameVerdict(item)
              THEN /\ cross_type_suggestions' = cross_type_suggestions + 1
                   /\ merge_edges' = merge_edges
              ELSE cross_type_suggestions' = cross_type_suggestions]_vars

\* The same-bucket pass appended the candidate and the cross-type pass meets its
\* pair again: the two nodes share the normalized name and the nodes of that
\* name are of two groups or more.
ProducedByBoth(records, candidate) ==
    \E a \in {RecordById(records, candidate.node_a)} :
    \E b \in {RecordById(records, candidate.node_b)} :
        /\ candidate.reason = "same_group_bucket"
        /\ a.name_norm = b.name_norm
        /\ \E i \in 1..Len(records) :
              records[i].name_norm = a.name_norm /\ records[i].group # a.group

\* C15: the candidate list holds each unordered pair of node ids at most once,
\* whichever pass produced it, and the pairs reviewed in one run, fresh or
\* resumed, are pairwise different: the judge is consulted at most once per pair.
C15_PairUniqueness ==
    /\ \A i, j \in 1..Len(candidates) :
          i # j => PairKey(candidates[i].node_a, candidates[i].node_b)
                      # PairKey(candidates[j].node_a, candidates[j].node_b)
    /\ \A i, j \in 1..Len(reviewed) :
          i # j => PairKey(reviewed[i].node_a, reviewed[i].node_b)
                      # PairKey(reviewed[j].node_a, reviewed[j].node_b)

\* A resumed run that ended, on a pool where a pair of the same-bucket pass is
\* met again by the cross-type pass, with pairs loaded from the checkpoint and
\* pairs evaluated after the resume.
C15_Witness ==
    /\ pc = "done"
    /\ cancels > 0
    /\ prior_evaluated > 0
    /\ evaluated > 0
    /\ Len(reviewed) = Len(candidates)
    /\ \E i \in 1..Len(candidates) : ProducedByBoth(Records(nodes), candidates[i])


\* The step is an iteration of the evaluation loop that asks the judge.
AsksJudge ==
    /\ pc = "loop"
    /\ idx <= Len(candidates)
    /\ CurrentPair \notin processed_pairs
    /\ pc' # "cancelled"
    /\ judge'[CurrentPair] # Unasked

\* Every attempt _evaluate_with_ollama makes ends in a transport error or in a
\* response that does not parse to a JSON object.
AllAttemptsFail(attempts) ==
    \A i \in 1..Min2(Len(attempts), RETRY_COUNT + 1) :
        attempts[i].kind \in {"transport_error", "timeout", "not_json", "not_object"}

\* C17: for one candidate the judge is called at most RETRY_COUNT + 1 times;
\* when every attempt fails with a transport or parse error the pair is
\* appended to the reviewed list with an error and no verdict, no merge edge
\* is added, and the loop goes on with the next candidate.
C17_JudgeFailureIsolation ==
    [][AsksJudge =>
          /\ EvaluateWithOllama(judge'[CurrentPair]).calls <= RETRY_COUNT + 1
          /\ AllAttemptsFail(judge'[CurrentPair]) =>
                /\ pc' = "loop"
                /\ idx' = idx + 1
                /\ Len(reviewed') = Len(reviewed) + 1
                /\ SubSeq(reviewed', 1, Len(reviewed)) = reviewed
                /\ PairKey(reviewed'[Len(reviewed')].node_a,
                           reviewed'[Len(reviewed')].node_b) = CurrentPair
                /\ reviewed'[Len(reviewed')].error
                /\ reviewed'[Len(reviewed')].llm = NoneResult
                /\ merge_edges' = merge_edges]_vars

\* The judge call returned a JSON object that is not of the shape
\* {same: boolean, confidence: number, ...}: a field is missing, same is no
\* boolean, or confidence is no number.
Malformed(outcome) ==
    \E call \in {EvaluateWithOllama(outcome)} :
        /\ ~call.error
        /\ ~call.raised
        /\ \/ call.result.empty
           \/ call.result.same \notin {"true", "false"}
           \/ ~call.result.numeric

\* C18: the evaluation of a candidate whose judge response is malformed adds
\* no merge edge and does not end the run: the loop goes on with the next
\* candidate.
C18_MalformedJudgeResponse ==
    [][(AsksJudge /\ Malformed(judge'[CurrentPair])) =>
          /\ merge_edges' = merge_edges
          /\ pc' = "loop"
          /\ idx' = idx + 1]_vars

----------------------------------------------------------------------------
(* Candidates: _build_candidates on a node list and on the list reordered *)

\* The caps of the configuration section as it is, and with one cap lowered.
Configs ==
    {Config,
     [Config EXCEPT !.max_bucket = 2],
     [Config EXCEPT !.max_per_node = 1],
     [Config EXCEPT !.max_total = 2]}

CandidatePools ==
    {<<DedupeNode(Id1, <<"Entity">>, NameValve, <<>>), DedupeNode(Id2, <<"Entity">>, n2, <<>>),
       DedupeNode(Id3, l3, n3, <<>>), DedupeNode(Id4, l4, n4, <<>>)>> :
        <<n2, l3, n3, l4, n4>> \in {NameValve, NameValves} \X PoolLabels \X {NameValve, NameValves}
                                     \X PoolLabels \X {NameValve, NameValvess}}

\* Orders in which the same four nodes can be listed in NODES_JSON.
Reorderings == {<<4, 3, 2, 1>>, <<2, 3, 4, 1>>, <<3, 1, 4, 2>>}

Reordered(nodeList, order) == [i \in 1..Len(nodeList) |-> nodeList[order[i]]]

InitCandidates ==
    /\ nodes \in CandidatePools
    /\ candidates = <<>>
    /\ judge = <<>>
    /\ pc = "candidates"
    /\ idx = 1
    /\ reviewed = <<>>
    /\ merge_edges = <<>>
    /\ cross_type_suggestions = 0
    /\ processed_pairs = {}
    /\ evaluated = 0
    /\ prior_evaluated = 0
    /\ checkpoint = NoCheckpoint
    /\ merge_map = <<>>
    /\ answers = <<>>
    /\ cancels = 0
    /\ runs = 0
    /\ relationships = <<>>
    /\ store = NoStore
    /\ probe = NoProbe

\* Line 400, for the node list as read and for the same nodes listed in
\* another order, under one configuration.
BuildCandidateList ==
    /\ pc = "candidates"
    /\ \E cfg \in Configs, order \in Reorderings :
          /\ candidates' = BuildCandidatesCfg(nodes, cfg)
          /\ probe' = [op |-> "candidates", cfg |-> cfg,
                       reordered |-> BuildCandidatesCfg(Reordered(nodes, order), cfg)]
    /\ pc' = "built"
    /\ UNCHANGED <<nodes, judge, idx, reviewed, merge_edges, cross_type_suggestions,
                   processed_pairs, evaluated, prior_evaluated, checkpoint, merge_map,
                   answers, cancels, runs, relationships, store>>

NextCandidates == BuildCandidateList

SpecCandidates == InitCandidates /\ [][NextCandidates]_vars

\* The ids of the nodes that share the bucket of the node with the id given.
BucketOf(records, id) ==
    {records[i].id : i \in {j \in 1..Len(records) :
                                BucketKey(records[j]) = BucketKey(RecordById(records, id))}}

\* C14: no candidate pairs two nodes of a bucket that holds more nodes than
\* the configured maximum.
C14_OversizedBucketSkip ==
    pc = "built" =>
        \A records \in {Records(nodes)} :
        \A i \in 1..Len(candidates) :
            \A bucket \in {BucketOf(records, candidates[i].node_a)} :
                (candidates[i].node_b \in bucket)
                    => Cardinality(bucket) <= probe.cfg.max_bucket

\* C16: for a pool with unique ids the candidate list (members, order and
\* node_a/node_b orientation) is the same for every order in which the nodes
\* are listed in the input.
C16_CandidateDeterminism ==
    pc = "built" => candidates = probe.reordered

\* Candidates of both passes were built, under a lowered cap, for a pool with
\* unique ids and for the same pool listed in another order.
C16_Witness ==
    /\ pc = "built"
    /\ probe.cfg # Config
    /\ \A i, j \in 1..Len(nodes) : i # j => nodes[i].id # nodes[j].id
    /\ \E i, j \in 1..Len(candidates) :
          /\ candidates[i].reason = "same_group_bucket"
          /\ candidates[j].reason = "cross_type_exact_name"

\* The number of candidates of the list that name the id.
CandidatesOf(cands, id) ==
    Cardinality({i \in 1..Len(cands) : id \in {cands[i].node_a, cands[i].node_b}})

\* C23: in the candidate list no node id occurs in more candidates than the
\* per-node cap, the candidates of both passes counted, and the list has no
\* more entries than the total cap.
C23_CandidateCaps ==
    pc = "built" =>
        /\ Len(candidates) <= probe.cfg.max_total
        /\ \A k \in 1..Len(nodes) :
              CandidatesOf(candidates, nodes[k].id) <= probe.cfg.max_per_node

----------------------------------------------------------------------------
(* Clusters: the merge map built from any list of accepted edges *)

MaxEdges == 3

ClusterPools ==
    {<<DedupeNode(Id1, <<"Entity">>, NameValve, d1), DedupeNode(Id2, <<"Entity">>, NameValve, d2),
       DedupeNode(Id3, <<"Entity">>, NameValves, <<>>), DedupeNode(Id4, <<"Entity">>, NameValve, <<>>)>> :
        <<d1, d2>> \in {<<>>, <<"d">>} \X {<<>>, <<"d">>}}

InitClusters ==
    /\ nodes \in ClusterPools
    /\ candidates = <<>>
    /\ judge = <<>>
    /\ pc = "edges"
    /\ idx = 1
    /\ reviewed = <<>>
    /\ merge_edges = <<>>
    /\ cross_type_suggestions = 0
    /\ processed_pairs = {}
    /\ evaluated = 0
    /\ prior_evaluated = 0
    /\ checkpoint = NoCheckpoint
    /\ merge_map = <<>>
    /\ answers = <<>>
    /\ cancels = 0
    /\ runs = 0
    /\ relationships = <<>>
    /\ store = NoStore
    /\ probe = NoProbe

\* Line 498: the loop accepts a pair, in the orientation of its candidate; no
\* pair is a candidate twice (lines 206-208, 440-442).
AcceptEdge ==
    /\ pc = "edges"
    /\ Len(merge_edges) < MaxEdges
    /\ \E i, j \in 1..Len(nodes) :
          /\ i # j
          /\ \A e \in RangeOf(merge_edges) :
                PairKey(e[1], e[2]) # PairKey(nodes[i].id, nodes[j].id)
          /\ merge_edges' = Append(merge_edges, <<nodes[i].id, nodes[j].id>>)
    /\ UNCHANGED <<nodes, candidates, judge, pc, idx, reviewed, cross_type_suggestions,
                   processed_pairs, evaluated, prior_evaluated, checkpoint, merge_map,
                   answers, cancels, runs, relationships, store, probe>>

\* Lines 525-535.
BuildClusters ==
    /\ pc = "edges"
    /\ merge_map' = BuildMergeMap(merge_edges, Records(nodes))
    /\ pc' = "done"
    /\ UNCHANGED <<nodes, candidates, judge, idx, reviewed, merge_edges,
                   cross_type_suggestions, processed_pairs, evaluated, prior_evaluated,
                   checkpoint, answers, cancels, runs, relationships, store, probe>>

NextClusters == AcceptEdge \/ BuildClusters

SpecClusters == InitClusters /\ [][NextClusters]_vars

SharesEndpoint(e, f) == {e[1], e[2]} \cap {f[1], f[2]} # {}

\* C5: if (A,B) and (B,C) are accepted edges, in any order and orientation, A, B
\* and C are in one union-find cluster and the merge map sends them to one id.
C5_Transitivity ==
    pc = "done" =>
        \A root \in {UnionFind(merge_edges).root} :
        \A i, j \in 1..Len(merge_edges) :
            SharesEndpoint(merge_edges[i], merge_edges[j]) =>
                \A x, y \in {merge_edges[i][1], merge_edges[i][2],
                             merge_edges[j][1], merge_edges[j][2]} :
                    /\ root[x] = root[y]
                    /\ Resolve(merge_map, x) = Resolve(merge_map, y)

\* Two accepted edges (A,B) and (C,B) over three ids, merged into one cluster.
C5_Witness ==
    /\ pc = "done"
    /\ \E i, j \in 1..Len(merge_edges) :
          /\ merge_edges[i][2] = merge_edges[j][2]
          /\ merge_edges[i][1] # merge_edges[j][1]
          /\ Cardinality(DOMAIN merge_map) >= 2

\* The ids joined to an id of S by a chain of edges.
RECURSIVE Grow(_, _)
Grow(S, edges) ==
    LET T == S \cup {e[1] : e \in {f \in RangeOf(edges) : f[2] \in S}}
                \cup {e[2] : e \in {f \in RangeOf(edges) : f[1] \in S}}
    IN  IF T = S THEN S ELSE Grow(T, edges)

\* The cluster of an id: the ids the accepted edges connect it with.
ClusterOf(edges, x) == Grow({x}, edges)

\* C29: in the merge map built from the accepted edges no value is a key,
\* every cluster has one member that is not a key and its other members map
\* to that member, and every value is the id of a node of the deduped list.
C29_MergeMapFlat ==
    pc = "done" =>
        /\ \A x \in DOMAIN merge_map : merge_map[x] \notin DOMAIN merge_map
        /\ \A e \in RangeOf(merge_edges) :
              \A cluster \in {ClusterOf(merge_edges, e[1])} :
                  \E rep \in cluster :
                      /\ rep \notin DOMAIN merge_map
                      /\ \A m \in cluster \ {rep} :
                            m \in DOMAIN merge_map /\ merge_map[m] = rep
        /\ \A x \in DOMAIN merge_map :
              \E k \in 1..Len(MergeNodes(nodes, merge_map)) :
                  MergeNodes(nodes, merge_map)[k].id = merge_map[x]

\* Three accepted edges that chain four ids into one cluster whose
\* representative is not the first id of the first edge.
C29_Witness ==
    /\ pc = "done"
    /\ Len(merge_edges) = 3
    /\ Cardinality(DOMAIN merge_map) = 3
    /\ merge_edges[1][1] \in DOMAIN merge_map

----------------------------------------------------------------------------
(* Reruns: main() run again on the node and relationship lists it wrote *)

MaxRuns == 2

NameUses == <<"u", "s", "e", "s">>

DedupeRel(source, type, target, description) ==
    [source |-> source, target |-> target, type |-> type,
     properties |-> [description |-> description, evidence |-> <<>>],
     temporal_info |-> [start |-> <<>>]]

RerunNames == {NameValve, NameValves, NameValvess}

\* A node as the extraction exports it: properties.alias_ids lists the raw ids
\* that were folded into it.
WithAliasIds(node) ==
    [node EXCEPT !.properties =
        [k \in DOMAIN node.properties \cup {"alias_ids"} |->
            IF k = "alias_ids" THEN <<node.id>> ELSE node.properties[k]]]

RerunPools ==
    {<<DedupeNode(Id1, <<"Entity">>, n1, <<>>), DedupeNode(Id2, <<"Entity">>, n2, d2),
       DedupeNode(Id3, <<"Entity">>, n3, <<>>)>> :
        <<n1, n2, n3, d2>> \in RerunNames \X RerunNames \X RerunNames \X {<<>>, <<"d", "d">>}}
    \cup
    {<<WithAliasIds(DedupeNode(Id1, <<"Entity">>, n1, <<>>)),
       WithAliasIds(DedupeNode(Id2, <<"Entity", "Pump">>, n2, <<>>)),
       WithAliasIds(DedupeNode(Id3, <<"Entity">>, n3, <<>>))>> :
        <<n1, n2, n3>> \in RerunNames \X RerunNames \X RerunNames}

RerunRelationships ==
    {<<>>,
     <<DedupeRel(Id1, NameUses, Id3, <<>>), DedupeRel(Id2, NameUses, Id3, <<"d">>),
       DedupeRel(Id3, NameUses, Id4, <<>>)>>}

RerunOutcomes == {<<Verdict("true", 92)>>, <<Verdict("false", 95)>>}

InitRerun ==
    /\ nodes \in RerunPools
    /\ relationships \in RerunRelationships
    /\ candidates = <<>>
    /\ judge = [p \in AllPairKeys(nodes) |-> Unasked]
    /\ pc = "rerun"
    /\ idx = 1
    /\ reviewed = <<>>
    /\ merge_edges = <<>>
    /\ cross_type_suggestions = 0
    /\ processed_pairs = {}
    /\ evaluated = 0
    /\ prior_evaluated = 0
    /\ checkpoint = NoCheckpoint
    /\ merge_map = <<>>
    /\ answers = [p \in AllPairKeys(nodes) |-> 0]
    /\ cancels = 0
    /\ runs = 0
    /\ store = NoStore
    /\ probe = NoProbe

CandidatePairs(cands) == {PairKey(cands[i].node_a, cands[i].node_b) : i \in 1..Len(cands)}

\* One whole fresh run of main() (lines 386-556) on the current node and
\* relationship lists; its deduped lists are the input of the next run.  The
\* judge answers a pair it was asked in an earlier run as it did then.
RunDedupe ==
    /\ pc = "rerun"
    /\ runs < MaxRuns
    /\ \E cands \in {BuildCandidates(nodes)} :
       \E unasked \in {{p \in CandidatePairs(cands) : judge[p] = Unasked}} :
       \E ext \in [unasked -> RerunOutcomes] :
       \E judgeOf \in {[p \in DOMAIN judge |-> IF p \in unasked THEN ext[p] ELSE judge[p]]} :
       \E st \in {FinalCheckpoint(EvaluationLoop(FreshRun, cands, judgeOf,
                                                Records(nodes), Len(cands)),
                                 Len(cands))} :
       \E map \in {BuildMergeMap(st.merge_edges, Records(nodes))} :
          /\ candidates' = cands
          /\ judge' = judgeOf
          /\ answers' = [p \in DOMAIN answers |->
                            IF p \in CandidatePairs(cands) /\ ~EvaluateWithOllama(judgeOf[p]).error
                            THEN answers[p] + 1 ELSE answers[p]]
          /\ SetRunState(st)
          /\ merge_map' = map
          /\ nodes' = MergeNodes(nodes, map)
          /\ relationships' = MergeRelationships(relationships, map)
    /\ runs' = runs + 1
    /\ UNCHANGED <<pc, idx, cancels, store, probe>>

NextRerun == RunDedupe

SpecRerun == InitRerun /\ [][NextRerun]_vars

\* C8: with a judge that answers every pair it was already asked as before, a
\* run of the dedupe on the output of an earlier run merges nothing: its merge
\* map is empty.
C8_RerunIdempotent == runs >= 2 => DOMAIN merge_map = {}

\* The pair of a reviewed item was accepted: a verdict same == true with
\* confidence >= the threshold for two nodes of one group.
AcceptedItem(item) ==
    /\ ~item.error
    /\ item.llm.kind = "object"
    /\ ~item.llm.empty
    /\ item.llm.same = "true"
    /\ item.llm.confidence >= CONFIDENCE_THRESHOLD_PCT
    /\ LabelGroup(item.labels_a) = LabelGroup(item.labels_b)

\* The alias list of a node of the deduped output.
AliasIds(node) ==
    IF "alias_ids" \in DOMAIN node.properties THEN RangeOf(node.properties.alias_ids) ELSE {}

\* C11: after a run, for every accepted pair of two nodes of one group the
\* deduped node list holds exactly one node for the two ids; its labels include
\* the labels of both nodes and its alias list holds both ids.
C11_AcceptedPairOutcome ==
    runs = 1 =>
        \A i \in 1..Len(reviewed) :
            AcceptedItem(reviewed[i]) =>
                \E j \in 1..Len(nodes) :
                    /\ \A k \in 1..Len(nodes) :
                          nodes[k].id \in {reviewed[i].node_a, reviewed[i].node_b} <=> k = j
                    /\ RangeOf(reviewed[i].labels_a) \cup RangeOf(reviewed[i].labels_b)
                          \subseteq RangeOf(nodes[j].labels)
                    /\ {reviewed[i].node_a, reviewed[i].node_b} \subseteq AliasIds(nodes[j])

\* C20: after a run, every relationship of the deduped list has a source and a
\* target that are ids of nodes of the deduped node list: a relationship whose
\* remapped endpoint is no such id was dropped.
C20_DanglingEndpointsDropped ==
    runs >= 1 =>
        \A ids \in {{nodes[k].id : k \in 1..Len(nodes)}} :
        \A i \in 1..Len(relationships) :
            /\ relationships[i].source \in ids
            /\ relationships[i].target \in ids

----------------------------------------------------------------------------
(* scripts/run_stakeholder_extraction.py : normalisation of texts *)

LABEL_ALIASES ==
    {
     <<<<"C", "O", "M", "P", "O", "N", "E", "N", "T", "S">>,
       <<"C", "O", "M", "P", "O", "N", "E", "N", "T">>>>,
     <<<<"T", "O", "O", "L", "S">>,
       <<"T", "O", "O", "L">>>>,
     <<<<"P", "E", "O", "P", "L", "E">>,
       <<"P", "E", "R", "S", "O", "N">>>>,
     <<<<"L", "O", "C", "A", "T", "I", "O", "N", "S">>,
       <<"L", "O", "C", "A", "T", "I", "O", "N">>>>,
     <<<<"S", "Y", "M", "P", "T", "O", "M", "S">>,
       <<"S", "Y", "M", "P", "T", "O", "M">>>>,
     <<<<"M", "E", "A", "S", "U", "R", "E", "M", "E", "N", "T", "S">>,
       <<"M", "E", "A", "S", "U", "R", "E", "M", "E", "N", "T">>>>
    }

DOMAIN_ALIASES ==
    {
     <<<<"w", "a", "r", "e", "h", "o", "u", "s", "e", "_", "m", "a", "n", "a", "g", "e", "m", "e", "n", "t", "_", "s", "y", "s", "t", "e", "m", "s">>,
       <<"w", "a", "r", "e", "h", "o", "u", "s", "e", "_", "m", "a", "n", "a", "g", "e", "m", "e", "n", "t", "_", "s", "y", "s", "t", "e", "m">>>>,
     <<<<"w", "a", "r", "e", "h", "o", "u", "s", "e", "_", "m", "a", "n", "a", "g", "e", "m", "e", "n", "t", "_", "s", "y", "s", "t", "e", "m">>,
       <<"w", "a", "r", "e", "h", "o", "u", "s", "e", "_", "m", "a", "n", "a", "g", "e", "m", "e", "n", "t", "_", "s", "y", "s", "t", "e", "m">>>>,
     <<<<"w", "a", "r", "e", "h", "o", "u", "s", "e", "_", "m", "a", "n", "a", "g", "e", "m", "e", "n", "t">>,
       <<"w", "a", "r", "e", "h", "o", "u", "s", "e", "_", "m", "a", "n", "a", "g", "e", "m", "e", "n", "t", "_", "s", "y", "s", "t", "e", "m">>>>,
     <<<<"s", "y", "s", "t", "e", "m", "_", "d", "i", "a", "g", "n", "o", "s", "t", "i", "c", "s">>,
       <<"s", "y", "s", "t", "e", "m", "_", "d", "i", "a", "g", "n", "o", "s", "t", "i", "c", "s">>>>,
     <<<<"s", "y", "s", "t", "e", "m", "_", "d", "i", "a", "g", "n", "o", "s", "t", "i", "c">>,
       <<"s", "y", "s", "t", "e", "m", "_", "d", "i", "a", "g", "n", "o", "s", "t", "i", "c", "s">>>>,
     <<<<"t", "r", "o", "u", "b", "l", "e", "s", "h", "o", "o", "t", "i", "n", "g", "_", "m", "e", "t", "h", "o", "d", "o", "l", "o", "g", "y">>,
       <<"t", "r", "o", "u", "b", "l", "e", "s", "h", "o", "o", "t", "i", "n", "g", "_", "m", "e", "t", "h", "o", "d", "o", "l", "o", "g", "y">>>>,
     <<<<"i", "n", "c", "i", "d", "e", "n", "t", "_", "m", "a", "n", "a", "g", "e", "m", "e", "n", "t">>,
       <<"i", "n", "c", "i", "d", "e", "n", "t", "_", "m", "a", "n", "a", "g", "e", "m", "e", "n", "t">>>>,
     <<<<"s", "y", "s", "t", "e", "m", "_", "i", "n", "t", "e", "g", "r", "a", "t", "i", "o", "n">>,
       <<"s", "y", "s", "t", "e", "m", "_", "i", "n", "t", "e", "g", "r", "a", "t", "i", "o", "n">>>>
    }

\* table.get(key, default) for a table given as a set of <<key, value>> pairs.
Lookup(table, key, default) ==
    IF \E p \in table : p[1] = key THEN (CHOOSE p \in table : p[1] = key)[2] ELSE default

IsAlnum(c) == IsLowerAlnum(LowerChar(c))

RECURSIVE SkipNonAlnum(_)
SkipNonAlnum(s) ==
    IF s # <<>> /\ ~IsLowerAlnum(Head(s)) THEN SkipNonAlnum(Tail(s)) ELSE s

\* re.sub(r"[^a-z0-9]+", rep, s)
RECURSIVE SubNonAlnum(_, _)
SubNonAlnum(s, rep) ==
    IF s = <<>> THEN <<>>
    ELSE IF IsLowerAlnum(Head(s)) THEN <<Head(s)>> \o SubNonAlnum(Tail(s), rep)
    ELSE <<rep>> \o SubNonAlnum(SkipNonAlnum(s), rep)

\* s.strip(c)
RECURSIVE StripChar(_, _)
StripChar(s, c) ==
    IF s # <<>> /\ Head(s) = c THEN StripChar(Tail(s), c)
    ELSE IF s # <<>> /\ s[Len(s)] = c THEN StripChar(SubSeq(s, 1, Len(s) - 1), c)
    ELSE s

\* re.sub(c + "+", c, s)
RECURSIVE CollapseChar(_, _)
CollapseChar(s, c) ==
    IF Len(s) < 2 THEN s
    ELSE IF s[1] = c /\ s[2] = c THEN CollapseChar(Tail(s), c)
    ELSE <<s[1]>> \o CollapseChar(Tail(s), c)

normalize_token(value) == CollapseChar(StripChar(SubNonAlnum(Lower(value), "_"), "_"), "_")

canonicalize_id(value) ==
    IF normalize_token(value) = <<>> THEN <<"u", "n", "k", "n", "o", "w", "n">> ELSE normalize_token(value)

normalize_label(label) ==
    IF label = <<>> THEN label
    ELSE Lookup(LABEL_ALIASES, Upper(normalize_token(label)), Upper(normalize_token(label)))

normalize_domain(domain) ==
    Lookup(DOMAIN_ALIASES, normalize_token(domain), normalize_token(domain))

normalize_relationship_type(rel_type) ==
    Upper(normalize_token(IF rel_type = <<>> THEN <<"r", "e", "l", "a", "t", "e", "d", "_", "t", "o">> ELSE rel_type))

RECURSIVE TakeAlnum(_)
TakeAlnum(s) == IF s # <<>> /\ IsAlnum(Head(s)) THEN <<Head(s)>> \o TakeAlnum(Tail(s)) ELSE <<>>

\* Group 1 of re.match(r"^\s*([A-Za-z0-9]{2,10})\s*\(", name), <<>> without a match.
AcronymMatch(name) ==
    LET run == TakeAlnum(StripLeft(name))
        rest == StripLeft(SubSeq(StripLeft(name), Len(run) + 1, Len(StripLeft(name))))
    IN  IF Len(run) >= 2 /\ Len(run) <= 10 /\ rest # <<>> /\ Head(rest) = "(" THEN run ELSE <<>>

\* re.sub(r"\([^)]*\)", " ", s)
RECURSIVE SubParens(_)
SubParens(s) ==
    IF s = <<>> THEN <<>>
    ELSE IF Head(s) = "(" /\ \E i \in 2..Len(s) : s[i] = ")"
    THEN LET close == CHOOSE i \in 2..Len(s) : s[i] = ")" /\ \A j \in 2..(i - 1) : s[j] # ")"
         IN  <<" ">> \o SubParens(SubSeq(s, close + 1, Len(s)))
    ELSE <<Head(s)>> \o SubParens(Tail(s))

RECURSIVE TakeWord(_)
TakeWord(s) == IF s # <<>> /\ ~IsSpace(Head(s)) THEN <<Head(s)>> \o TakeWord(Tail(s)) ELSE <<>>

\* s.split()
RECURSIVE Split(_)
Split(s) ==
    IF StripLeft(s) = <<>> THEN <<>>
    ELSE LET word == TakeWord(StripLeft(s))
         IN  <<word>> \o Split(SubSeq(StripLeft(s), Len(word) + 1, Len(StripLeft(s))))

\* sep.join(words)
RECURSIVE Join(_, _)
Join(words, sep) ==
    IF words = <<>> THEN <<>>
    ELSE IF Len(words) = 1 THEN words[1]
    ELSE words[1] \o <<sep>> \o Join(Tail(words), sep)

Stopwords ==
    {<<"a">>,
     <<"a", "n">>,
     <<"t", "h", "e">>,
     <<"s", "y", "s", "t", "e", "m">>,
     <<"s", "y", "s", "t", "e", "m", "s">>,
     <<"p", "r", "o", "c", "e", "s", "s">>,
     <<"p", "r", "o", "c", "e", "d", "u", "r", "e">>,
     <<"p", "r", "o", "t", "o", "c", "o", "l">>,
     <<"w", "o", "r", "k", "f", "l", "o", "w">>,
     <<"m", "o", "d", "u", "l", "e">>,
     <<"p", "l", "a", "t", "f", "o", "r", "m">>}

IsContentWord(word) == word \notin Stopwords

display_name_fingerprint(name) ==
    LET tokens == SelectSeq(Split(SubNonAlnum(SubParens(Lower(name)), " ")), IsContentWord)
    IN  IF Strip(name) = <<>> THEN <<>>
        ELSE IF AcronymMatch(name) # <<>> /\ normalize_token(AcronymMatch(name)) # <<>>
        THEN normalize_token(AcronymMatch(name))
        ELSE IF tokens = <<>> THEN <<>>
        ELSE Join(SubSeq(tokens, 1, Min2(6, Len(tokens))), "_")

\* merge_lists(left, right) for two lists
RECURSIVE MergeInto(_, _)
MergeInto(merged, items) ==
    IF items = <<>> THEN merged
    ELSE MergeInto(IF \E i \in 1..Len(merged) : merged[i] = Head(items)
                   THEN merged ELSE Append(merged, Head(items)),
                   Tail(items))

merge_lists(left, right) == MergeInto(MergeInto(<<>>, left), right)

----------------------------------------------------------------------------
(* scripts/run_stakeholder_extraction.py : CanonicalGraphBuilder *)

\* A key the record does not hold (dict.get gives its default).
Absent == <<"None">>

CONFIDENCE_RANK == {<<<<"l", "o", "w">>, 1>>, <<<<"m", "e", "d", "i", "u", "m">>, 2>>, <<<<"h", "i", "g", "h">>, 3>>}

CoarseDomains == {<<"h", "a", "r", "d", "w", "a", "r", "e">>, <<"s", "o", "f", "t", "w", "a", "r", "e">>, <<"e", "n", "v", "i", "r", "o", "n", "m", "e", "n", "t", "a", "l">>, <<"h", "u", "m", "a", "n">>}

ZeroStats ==
    [raw_node_records |-> 0, raw_relationship_records |-> 0, node_upserts |-> 0,
     node_merges |-> 0, relationship_upserts |-> 0, relationship_deduped |-> 0,
     final_name_merges |-> 0, final_relationship_deduped |-> 0,
     dropped_relationships_missing_endpoints |-> 0]

\* CanonicalGraphBuilder(): nodes and relationships are the dicts in insertion
\* order; batches counts the ingest_batch calls, remap is what the last
\* reconciliation returned, merges_at_finalize and nodes_at_finalize are
\* history, and so are ingested: the relationship records given to ingest_batch,
\* each with the key it was stored under, and batch_log: the batches given to
\* ingest_batch, in order, and prepass and prepass_relationships: the nodes and
\* the relationships as finalize() found them, and resolved: for each node
\* record given to ingest_batch, in order, its raw id, the id it was stored
\* under and whether it was merged into a node of the store.
NewBuilder ==
    [phase |-> "ingest", batches |-> 0, nodes |-> <<>>, relationships |-> <<>>,
     aliases |-> <<>>, stats |-> ZeroStats, remap |-> <<>>,
     merges_at_finalize |-> 0, nodes_at_finalize |-> {}, ingested |-> <<>>,
     batch_log |-> <<>>, prepass |-> <<>>, prepass_relationships |-> <<>>,
     resolved |-> <<>>]

\* d[k] = v on a dict given as a function
Put(d, k, v) == [x \in DOMAIN d \cup {k} |-> IF x = k THEN v ELSE d[x]]

\* d.get(k, k)
GetOrSelf(d, k) == IF k \in DOMAIN d THEN d[k] ELSE k

NodeIds(nodeList) == {nodeList[i].id : i \in 1..Len(nodeList)}

NodeAt(nodeList, id) == nodeList[CHOOSE i \in 1..Len(nodeList) : nodeList[i].id = id]

source_priority(kind) == IF kind = "csv" THEN 2 ELSE 1

coarse_domain(node) ==
    IF node.properties.domain \in CoarseDomains THEN node.properties.domain ELSE <<>>

EndsWith(s, suffix) ==
    Len(s) >= Len(suffix) /\ SubSeq(s, Len(s) - Len(suffix) + 1, Len(s)) = suffix

\* Lines 215-228 alone: the id the rules give when the alias map is not
\* consulted.
canonical_node_id_by_rules(aliases, node, source_kind_value) ==
    LET raw_id == canonicalize_id(node.id)
        name == node.properties.name
        name_id == IF name # <<>> THEN canonicalize_id(name) ELSE <<>>
        node_type == IF node.properties.node_type = Absent THEN <<>>
                     ELSE Lower(node.properties.node_type)
    IN  IF /\ node_type = <<"e", "n", "t", "i", "t", "y">>
           /\ name_id # <<>>
           /\ \/ EndsWith(raw_id, <<"_", "s", "y", "s", "t", "e", "m">>)
              \/ EndsWith(raw_id, <<"_", "m", "o", "d", "u", "l", "e">>)
              \/ Len(name_id) <= Len(raw_id)
        THEN name_id
        ELSE IF source_kind_value = "csv" /\ name_id # <<>> THEN name_id
        ELSE raw_id

canonical_node_id(aliases, node, source_kind_value) ==
    LET raw_id == canonicalize_id(node.id)
        name == node.properties.name
        name_id == IF name # <<>> THEN canonicalize_id(name) ELSE <<>>
        node_type == IF node.properties.node_type = Absent THEN <<>>
                     ELSE Lower(node.properties.node_type)
    IN  IF raw_id # <<>> /\ raw_id \in DOMAIN aliases THEN aliases[raw_id]
        ELSE IF name_id # <<>> /\ name_id \in DOMAIN aliases THEN aliases[name_id]
        ELSE IF /\ node_type = <<"e", "n", "t", "i", "t", "y">>
                /\ name_id # <<>>
                /\ \/ EndsWith(raw_id, <<"_", "s", "y", "s", "t", "e", "m">>)
                   \/ EndsWith(raw_id, <<"_", "m", "o", "d", "u", "l", "e">>)
                   \/ Len(name_id) <= Len(raw_id)
        THEN name_id
        ELSE IF source_kind_value = "csv" /\ name_id # <<>> THEN name_id
        ELSE IF raw_id # <<>> THEN raw_id
        ELSE IF name_id # <<>> THEN name_id
        ELSE <<"u", "n", "k", "n", "o", "w", "n", "_", "n", "o", "d", "e">>

ChooseIncoming(key, existing_value, incoming_value, existing_priority, incoming_priority) ==
    incoming_value

\* _choose_property_value for string values (<<>> is the empty or missing value)
choose_property_value(key, existing_value, incoming_value, existing_priority, incoming_priority) ==
    IF incoming_value = <<>> THEN existing_value
    ELSE IF existing_value = <<>> THEN incoming_value
    ELSE IF key = "description"
    THEN (IF Len(incoming_value) > Len(existing_value) THEN incoming_value ELSE existing_value)
    ELSE IF key = "domain"
    THEN (IF incoming_priority > existing_priority
          THEN normalize_domain(incoming_value) ELSE normalize_domain(existing_value))
    ELSE IF incoming_priority > existing_priority THEN incoming_value
    ELSE IF Len(existing_value) >= Len(incoming_value) THEN existing_value
    ELSE incoming_value

PropertyKeys == {"name", "description", "domain", "node_type"}

\* [normalize_label(str(label)) for label in labels if label] or ["ENTITY"]
NormalizedLabels(labels) ==
    LET kept == SelectSeq(labels, LAMBDA l : l # <<>>)
    IN  IF kept = <<>> THEN <<<<"E", "N", "T", "I", "T", "Y">>>>
        ELSE [i \in 1..Len(kept) |-> normalize_label(kept[i])]

\* _normalize_node; properties.source_files and properties.alias_ids are the
\* record's source_files and aliases.
normalize_node(aliases, node, source_file, source_kind_value) ==
    [id |-> canonical_node_id(aliases, node, source_kind_value),
     labels |-> NormalizedLabels(node.labels),
     properties |->
        [name |-> node.properties.name,
         description |-> node.properties.description,
         domain |-> normalize_domain(node.properties.domain),
         node_type |-> IF node.properties.node_type # Absent
                       THEN normalize_token(node.properties.node_type)
                       ELSE Lower(NormalizedLabels(node.labels)[1])],
     source_priority |-> source_priority(source_kind_value),
     source_files |-> <<source_file>>,
     aliases |-> <<canonicalize_id(node.id)>>]

merge_node_records(existing, incoming) ==
    [id |-> existing.id,
     labels |-> merge_lists(existing.labels, incoming.labels),
     properties |-> [key \in PropertyKeys |->
                        choose_property_value(key, existing.properties[key],
                                              incoming.properties[key],
                                              existing.source_priority,
                                              incoming.source_priority)],
     source_priority |-> Max2(existing.source_priority, incoming.source_priority),
     source_files |-> merge_lists(existing.source_files, incoming.source_files),
     aliases |-> merge_lists(existing.aliases, incoming.aliases)]

\* stats[name] += 1, whatever n is
CountOne(stats, name, n) == [stats EXCEPT ![name] = @ + 1]

\* stats[name] += n
Count(stats, name, n) == [stats EXCEPT ![name] = @ + n]

RECURSIVE PutAll(_, _, _)
PutAll(d, keys, v) == IF keys = <<>> THEN d ELSE PutAll(Put(d, Head(keys), v), Tail(keys), v)

\* Lines 334-337 alone: the canonical id is not pointed at itself.
UpdateAliasesOriginalOnly(aliases, canonical_id, original_id, node_aliases) ==
    PutAll(IF original_id # <<>> THEN Put(aliases, original_id, canonical_id) ELSE aliases,
           node_aliases, canonical_id)

\* Lines 333-337: the canonical id, the original id and every alias of the
\* stored node point at the canonical id.
UpdateAliases(aliases, canonical_id, original_id, node_aliases) ==
    LET aliases1 == Put(aliases, canonical_id, canonical_id)
        aliases2 == IF original_id # <<>> THEN Put(aliases1, original_id, canonical_id)
                    ELSE aliases1
    IN  PutAll(aliases2, node_aliases, canonical_id)

\* The body of the node loop of ingest_batch (lines 321-340).
IngestNode(b, node, source_file, source_kind_value) ==
    LET normalized_node == normalize_node(b.aliases, node, source_file, source_kind_value)
        canonical_id == normalized_node.id
        original_id == canonicalize_id(node.id)
        known == canonical_id \in NodeIds(b.nodes)
        stored == IF known THEN merge_node_records(NodeAt(b.nodes, canonical_id), normalized_node)
                  ELSE normalized_node
        nodes1 == IF known
                  THEN [i \in 1..Len(b.nodes) |->
                           IF b.nodes[i].id = canonical_id THEN stored ELSE b.nodes[i]]
                  ELSE Append(b.nodes, stored)
    IN  [b EXCEPT !.nodes = nodes1,
                  !.aliases = UpdateAliases(b.aliases, canonical_id, original_id,
                                            stored.aliases),
                  !.stats = Count(IF known THEN Count(b.stats, "node_merges", 1) ELSE b.stats,
                                  "node_upserts", 1),
                  !.resolved = Append(@, [raw |-> original_id, id |-> canonical_id,
                                          merged |-> known])]

RelKeyOf(rel) == <<rel.source, rel.target, rel.type>>

\* str(props.get("confidence", "low")).lower()
ConfidenceOf(props) ==
    IF props.confidence = Absent THEN <<"l", "o", "w">> ELSE Lower(props.confidence)

\* The body of the relationship loop of ingest_batch (lines 343-381).
IngestRelationship(b, relationship, source_file) ==
    LET source_id == GetOrSelf(b.aliases, canonicalize_id(relationship.source))
        target_id == GetOrSelf(b.aliases, canonicalize_id(relationship.target))
        rel_type == normalize_relationship_type(relationship.type)
        key == <<source_id, target_id, rel_type>>
        rel_properties == [confidence |-> relationship.properties.confidence,
                           context |-> relationship.properties.context,
                           domain |-> normalize_domain(relationship.properties.domain),
                           source_files |-> merge_lists(<<>>, <<source_file>>),
                           occurrences |-> 1]
        at == {i \in 1..Len(b.relationships) : RelKeyOf(b.relationships[i]) = key}
        merged(existing_props) ==
            [source_files |-> merge_lists(existing_props.source_files, rel_properties.source_files),
             occurrences |-> existing_props.occurrences + 1,
             confidence |-> IF Lookup(CONFIDENCE_RANK, ConfidenceOf(rel_properties), 0)
                                > Lookup(CONFIDENCE_RANK, ConfidenceOf(existing_props), 0)
                            THEN ConfidenceOf(rel_properties) ELSE existing_props.confidence,
             context |-> IF Len(rel_properties.context) > Len(existing_props.context)
                         THEN rel_properties.context ELSE existing_props.context,
             domain |-> IF rel_properties.domain # <<>> /\ existing_props.domain = <<>>
                        THEN rel_properties.domain ELSE existing_props.domain]
    IN  IF at # {}
        THEN [b EXCEPT !.relationships =
                          [i \in 1..Len(b.relationships) |->
                              IF i \in at
                              THEN [b.relationships[i] EXCEPT !.properties = merged(@)]
                              ELSE b.relationships[i]],
                       !.stats = Count(Count(b.stats, "relationship_deduped", 1),
                                       "relationship_upserts", 1),
                       !.ingested = Append(@, [relationship |-> relationship, key |-> key])]
        ELSE [b EXCEPT !.relationships =
                          Append(b.relationships,
                                 [source |-> source_id, target |-> target_id,
                                  type |-> rel_type, properties |-> rel_properties]),
                       !.stats = Count(b.stats, "relationship_upserts", 1),
                       !.ingested = Append(@, [relationship |-> relationship, key |-> key])]

RECURSIVE IngestNodes(_, _, _, _)
IngestNodes(b, nodeList, source_file, source_kind_value) ==
    IF nodeList = <<>> THEN b
    ELSE IngestNodes(IngestNode(b, Head(nodeList), source_file, source_kind_value),
                     Tail(nodeList), source_file, source_kind_value)

RECURSIVE IngestRelationships(_, _, _)
IngestRelationships(b, rels, source_file) ==
    IF rels = <<>> THEN b
    ELSE IngestRelationships(IngestRelationship(b, Head(rels), source_file),
                             Tail(rels), source_file)

ingest_batch(b, nodeList, rels, source_file, source_kind_value) ==
    LET counted == [b EXCEPT !.stats = Count(Count(b.stats, "raw_node_records", Len(nodeList)),
                                             "raw_relationship_records", Len(rels)),
                             !.batches = @ + 1]
    IN  IngestRelationships(IngestNodes(counted, nodeList, source_file, source_kind_value),
                            rels, source_file)

choose_primary_id(nodeList, node_ids, fingerprint) ==
    IF \E i \in 1..Len(node_ids) : node_ids[i] = fingerprint THEN fingerprint
    ELSE SortByKey([i \in 1..Len(node_ids) |->
                      [k |-> <<<<Len(node_ids[i])>>,
                               <<0 - Len(NodeAt(nodeList, node_ids[i]).source_files)>>,
                               Codes(node_ids[i])>>,
                       v |-> node_ids[i]]])[1].v

can_merge_nodes(left, right) ==
    ~(coarse_domain(left) # <<>> /\ coarse_domain(right) # <<>>
      /\ coarse_domain(left) # coarse_domain(right))

\* display_name_fingerprint(name) or display_name_fingerprint(node_id)
FingerprintOf(node) ==
    IF display_name_fingerprint(node.properties.name) # <<>>
    THEN display_name_fingerprint(node.properties.name)
    ELSE display_name_fingerprint(node.id)

GroupKeyOf(node) == <<node.properties.node_type, FingerprintOf(node)>>

\* The keys of groups in insertion order (lines 405-412).
GroupKeys(nodeList) ==
    LET grouped == SelectSeq(nodeList, LAMBDA n : FingerprintOf(n) # <<>>)
    IN  MergeInto(<<>>, [i \in 1..Len(grouped) |-> GroupKeyOf(grouped[i])])

\* groups[key]: the ids of the group in insertion order.
GroupOf(nodeList, key) ==
    LET members == SelectSeq(nodeList, LAMBDA n : FingerprintOf(n) # <<>> /\ GroupKeyOf(n) = key)
    IN  [i \in 1..Len(members) |-> members[i].id]

\* The loop over the candidates of one group (lines 419-432).
RECURSIVE ReconcileCandidates(_, _, _)
ReconcileCandidates(b, primary, group) ==
    IF group = <<>> THEN b
    ELSE LET candidate == Head(group)
             skip == \/ candidate = primary
                     \/ candidate \notin NodeIds(b.nodes)
                     \/ primary \notin NodeIds(b.nodes)
                     \/ ~can_merge_nodes(NodeAt(b.nodes, primary), NodeAt(b.nodes, candidate))
             merged == merge_node_records(NodeAt(b.nodes, primary), NodeAt(b.nodes, candidate))
             replaced == [i \in 1..Len(b.nodes) |->
                             IF b.nodes[i].id = primary THEN merged ELSE b.nodes[i]]
             next == [b EXCEPT !.nodes = SelectSeq(replaced, LAMBDA n : n.id # candidate),
                               !.remap = Put(b.remap, candidate, primary),
                               !.aliases = Put(b.aliases, candidate, primary),
                               !.stats = Count(b.stats, "final_name_merges", 1)]
         IN  ReconcileCandidates(IF skip THEN b ELSE next, primary, Tail(group))

\* The loop over the groups (lines 415-432); groups was built before it.
RECURSIVE ReconcileGroups(_, _, _)
ReconcileGroups(b, keys, nodeList) ==
    IF keys = <<>> THEN b
    ELSE LET group == GroupOf(nodeList, Head(keys))
             next == IF Len(group) < 2 THEN b
                     ELSE ReconcileCandidates(b, choose_primary_id(b.nodes, group, Head(keys)[2]),
                                              group)
         IN  ReconcileGroups(next, Tail(keys), nodeList)

\* _final_name_based_reconcile: its result is b.remap.
final_name_based_reconcile(b) ==
    ReconcileGroups([b EXCEPT !.remap = <<>>], GroupKeys(b.nodes), b.nodes)

EndpointsUnchecked(nodeList, source_id, target_id) == TRUE

\* Line 445, negated: both endpoints are ids of nodes of the store.
EndpointsPresent(nodeList, source_id, target_id) ==
    source_id \in NodeIds(nodeList) /\ target_id \in NodeIds(nodeList)

\* The loop of _remap_relationships: b.relationships is new_relationships.
RECURSIVE RemapLoop(_, _)
RemapLoop(b, rels) ==
    IF rels = <<>> THEN b
    ELSE LET relationship == Head(rels)
             source_id == GetOrSelf(b.remap, relationship.source)
             target_id == GetOrSelf(b.remap, relationship.target)
             key == <<source_id, target_id, relationship.type>>
             rel_props == relationship.properties
             at == {i \in 1..Len(b.relationships) : RelKeyOf(b.relationships[i]) = key}
             merged(existing) ==
                 [existing EXCEPT
                     !.source_files = merge_lists(existing.source_files, rel_props.source_files),
                     !.occurrences = existing.occurrences + rel_props.occurrences,
                     !.context = IF Len(rel_props.context) > Len(existing.context)
                                 THEN rel_props.context ELSE existing.context]
             next == IF ~EndpointsPresent(b.nodes, source_id, target_id)
                     THEN [b EXCEPT !.stats =
                              Count(b.stats, "dropped_relationships_missing_endpoints", 1)]
                     ELSE IF at # {}
                     THEN [b EXCEPT !.relationships =
                                       [i \in 1..Len(b.relationships) |->
                                           IF i \in at
                                           THEN [b.relationships[i] EXCEPT !.properties = merged(@)]
                                           ELSE b.relationships[i]],
                                    !.stats = Count(b.stats, "final_relationship_deduped", 1)]
                     ELSE [b EXCEPT !.relationships =
                                       Append(b.relationships,
                                              [source |-> source_id, target |-> target_id,
                                               type |-> relationship.type,
                                               properties |-> rel_props])]
         IN  RemapLoop(next, Tail(rels))

remap_relationships(b) == RemapLoop([b EXCEPT !.relationships = <<>>], b.relationships)

finalize(b) == remap_relationships(final_name_based_reconcile(b))

\* export()
export(b) ==
    [nodes |-> Values(SortByKey([i \in 1..Len(b.nodes) |->
                  [k |-> <<Codes(b.nodes[i].id)>>,
                   v |-> [id |-> b.nodes[i].id,
                          labels |-> Values(SortByKey([j \in 1..Len(b.nodes[i].labels) |->
                                        [k |-> <<Codes(b.nodes[i].labels[j])>>,
                                         v |-> b.nodes[i].labels[j]]])),
                          properties |-> b.nodes[i].properties]]])),
     relationships |-> Values(SortByKey([i \in 1..Len(b.relationships) |->
                  [k |-> <<Codes(b.relationships[i].source), Codes(b.relationships[i].target),
                           Codes(b.relationships[i].type)>>,
                   v |-> b.relationships[i]]]))]

----------------------------------------------------------------------------
(* The canonical store: batches are ingested, then the store is finalized *)

MaxBatches == 3

StoreNode(id, labels, name, description, domain, node_type) ==
    [id |-> id, labels |-> labels,
     properties |-> [name |-> name, description |-> description, domain |-> domain,
                     node_type |-> node_type]]

StoreRel(source, target, type, confidence, context, domain) ==
    [source |-> source, target |-> target, type |-> type,
     properties |-> [confidence |-> confidence, context |-> context, domain |-> domain]]

\* The extraction results that can arrive for a chunk of a source file.
Batches ==
    {
     [nodes |-> <<StoreNode(<<"p", "u", "m", "p">>, <<>>, <<>>, <<>>, <<"h", "a", "r", "d", "w", "a", "r", "e">>, Absent)>>,
      relationships |-> <<StoreRel(<<"p", "u", "m", "p">>, <<"v", "a", "l", "v", "e">>, <<"u", "s", "e", "s">>, Absent, <<>>, <<>>)>>,
      source_file |-> "a.md", source_kind |-> "markdown"],
     [nodes |-> <<StoreNode(<<"P", "u", "m", "p", " ", "S", "y", "s", "t", "e", "m">>, <<>>, <<>>, <<>>, <<"S", "o", "f", "t", "w", "a", "r", "e">>, Absent)>>,
      relationships |-> <<StoreRel(<<"P", "u", "m", "p", " ", "S", "y", "s", "t", "e", "m">>, <<"p", "u", "m", "p">>, <<"p", "a", "r", "t", " ", "o", "f">>, <<"H", "i", "g", "h">>, <<"c">>, <<>>)>>,
      source_file |-> "a.md", source_kind |-> "markdown"],
     [nodes |-> <<StoreNode(<<"n", "1">>, <<>>, <<"T", "h", "e", " ", "P", "u", "m", "p">>, <<"d">>, <<"W", "a", "r", "e", "h", "o", "u", "s", "e", " ", "M", "a", "n", "a", "g", "e", "m", "e", "n", "t">>, Absent)>>,
      relationships |-> <<StoreRel(<<"n", "1">>, <<"p", "u", "m", "p">>, <<"u", "s", "e", "s">>, <<"l", "o", "w">>, <<"c", "c">>, <<"h", "a", "r", "d", "w", "a", "r", "e">>),
                         StoreRel(<<"p", "u", "m", "p">>, <<"n", "1">>, <<"u", "s", "e", "s">>, <<"h", "i", "g", "h">>, <<>>, <<>>)>>,
      source_file |-> "t.csv", source_kind |-> "csv"],
     [nodes |-> <<StoreNode(<<"v", "a", "l", "v", "e">>, <<<<"C", "o", "m", "p", "o", "n", "e", "n", "t", "s">>>>, <<"V", "a", "l", "v", "e", " ", "(", "V", "1", ")">>, <<"d", "d">>, <<"?", "?">>, <<"E", "n", "t", "i", "t", "y">>)>>,
      relationships |-> <<StoreRel(<<"T", "h", "e", " ", "P", "u", "m", "p">>, <<"P", "u", "m", "p", " ", "S", "y", "s", "t", "e", "m">>, <<"p", "a", "r", "t", " ", "o", "f">>, Absent, <<>>, <<>>)>>,
      source_file |-> "b.md", source_kind |-> "markdown"],
     [nodes |-> <<StoreNode(<<"n", "2">>, <<>>, <<"T", "h", "e", " ", "P", "u", "m", "p">>, <<>>, <<"h", "u", "m", "a", "n">>, Absent),
                 StoreNode(<<"p", "u", "m", "p">>, <<>>, <<>>, <<"d", "d">>, <<>>, Absent)>>,
      relationships |-> <<>>,
      source_file |-> "t.csv", source_kind |-> "csv"],
     [nodes |-> <<StoreNode(<<"n", "1">>, <<>>, <<>>, <<>>, <<>>, Absent)>>,
      relationships |-> <<StoreRel(<<"n", "1">>, <<"n", "2">>, <<>>, <<"m", "e", "d", "i", "u", "m">>, <<>>, <<>>),
                         StoreRel(<<"p", "u", "m", "p">>, <<"v", "a", "l", "v", "e">>, <<"U", "S", "E", "S">>, <<"l", "o", "w">>, <<"c">>, <<>>)>>,
      source_file |-> "b.md", source_kind |-> "markdown"],
     [nodes |-> <<StoreNode(<<>>, <<>>, <<>>, <<"d">>, <<>>, Absent),
                 StoreNode(<<"m", "o", "t", "o", "r">>, <<>>, <<>>, <<>>, <<>>, Absent)>>,
      relationships |-> <<StoreRel(<<>>, <<"m", "o", "t", "o", "r">>, <<"u", "s", "e", "s">>, Absent, <<>>, <<>>),
                         StoreRel(<<"m", "o", "t", "o", "r">>, <<"p", "u", "m", "p">>, <<"u", "s", "e", "s">>, Absent, <<>>, <<>>)>>,
      source_file |-> "c.md", source_kind |-> "markdown"]
    }

InitStore ==
    /\ nodes = <<>>
    /\ candidates = <<>>
    /\ judge = <<>>
    /\ pc = "store"
    /\ idx = 1
    /\ reviewed = <<>>
    /\ merge_edges = <<>>
    /\ cross_type_suggestions = 0
    /\ processed_pairs = {}
    /\ evaluated = 0
    /\ prior_evaluated = 0
    /\ checkpoint = NoCheckpoint
    /\ merge_map = <<>>
    /\ answers = <<>>
    /\ cancels = 0
    /\ runs = 0
    /\ relationships = <<>>
    /\ store = NewBuilder
    /\ probe = NoProbe

storeUnchanged ==
    UNCHANGED <<nodes, candidates, judge, pc, idx, reviewed, merge_edges,
                cross_type_suggestions, processed_pairs, evaluated, prior_evaluated,
                checkpoint, merge_map, answers, cancels, runs, relationships, probe>>

\* builder.ingest_batch(nodes, relationships, source_file, source_kind_value)
IngestBatch ==
    /\ store.phase = "ingest"
    /\ store.batches < MaxBatches
    /\ \E batch \in Batches :
          store' = [ingest_batch(store, batch.nodes, batch.relationships,
                                 batch.source_file, batch.source_kind)
                       EXCEPT !.batch_log = Append(@, batch)]
    /\ storeUnchanged

\* builder.finalize()
Finalize ==
    /\ store.phase = "ingest"
    /\ \E f \in {finalize(store)} :
          store' = [f EXCEPT !.phase = "finalized",
                             !.merges_at_finalize = f.stats.final_name_merges,
                             !.nodes_at_finalize = NodeIds(f.nodes),
                             !.prepass = store.nodes,
                             !.prepass_relationships = store.relationships]
    /\ storeUnchanged

\* builder._final_name_based_reconcile() on the finalized store
ReconcileAgain ==
    /\ store.phase = "finalized"
    /\ store' = [final_name_based_reconcile(store) EXCEPT !.phase = "reconciled"]
    /\ storeUnchanged

NextStore == IngestBatch \/ Finalize \/ ReconcileAgain

SpecStore == InitStore /\ [][NextStore]_vars

\* C3: after finalize(), every alias points at a node of the store, and the
\* alias of that node is the node itself (resolution ends in one hop).
C3_AliasTermination ==
    store.phase = "finalized" =>
        \A r \in DOMAIN store.aliases :
            /\ store.aliases[r] \in NodeIds(store.nodes)
            /\ store.aliases[r] \in DOMAIN store.aliases
            /\ store.aliases[store.aliases[r]] = store.aliases[r]

\* C4: after finalize(), the source and the target of every relationship of
\* the store, and of every exported relationship, are ids of nodes of the store.
C4_ReferentialIntegrity ==
    store.phase = "finalized" =>
        \A rel \in RangeOf(store.relationships) \cup RangeOf(export(store).relationships) :
            rel.source \in NodeIds(store.nodes) /\ rel.target \in NodeIds(store.nodes)

\* A finalized store that folded a node, dropped a relationship with a missing
\* endpoint and kept a relationship whose endpoint was remapped.
C4_Witness ==
    /\ store.phase = "finalized"
    /\ store.stats.dropped_relationships_missing_endpoints > 0
    /\ \E rel \in RangeOf(store.relationships) :
          \E c \in DOMAIN store.remap : store.remap[c] \in {rel.source, rel.target}

\* C7: the reconciliation sweep run again on a finalized store merges nothing:
\* final_name_merges and the set of nodes stay as finalize() left them.
C7_ReconcileIdempotent ==
    store.phase = "reconciled" =>
        /\ store.stats.final_name_merges = store.merges_at_finalize
        /\ NodeIds(store.nodes) = store.nodes_at_finalize

\* The triple a relationship record names: its ids canonicalized and its type
\* normalized (lines 344-348, before the alias map).
RawTriple(relationship) ==
    <<canonicalize_id(relationship.source), canonicalize_id(relationship.target),
      normalize_relationship_type(relationship.type)>>

\* CONFIDENCE_RANK.get(str(props.get("confidence", "low")).lower(), 0)
RankOf(props) == Lookup(CONFIDENCE_RANK, ConfidenceOf(props), 0)

\* C13: while batches are ingested, the records that name one triple are all
\* held by one record of the store; its occurrences is the number of ingested
\* records it holds, and its confidence has the highest rank among them (so it
\* is never downgraded).
C13_RelationshipRepeatMerge ==
    store.phase = "ingest" =>
        \A i \in 1..Len(store.ingested) :
            \A same \in {{j \in 1..Len(store.ingested) :
                            RawTriple(store.ingested[j].relationship)
                                = RawTriple(store.ingested[i].relationship)}} :
            \A under \in {{j \in 1..Len(store.ingested) :
                             store.ingested[j].key = store.ingested[i].key}} :
            \A held \in {{r \in 1..Len(store.relationships) :
                            RelKeyOf(store.relationships[r]) = store.ingested[i].key}} :
                /\ same \subseteq under
                /\ Cardinality(held) = 1
                /\ \A r \in held :
                      /\ store.relationships[r].properties.occurrences = Cardinality(under)
                      /\ \A j \in under :
                            RankOf(store.ingested[j].relationship.properties)
                                <= RankOf(store.relationships[r].properties)
                      /\ \E j \in under :
                            RankOf(store.ingested[j].relationship.properties)
                                = RankOf(store.relationships[r].properties)

\* A node record with an id; a relationship record with source, target and type.
HasId(node) == node.id # <<>>
HasEndpointsAndType(relationship) ==
    relationship.source # <<>> /\ relationship.target # <<>> /\ relationship.type # <<>>

\* The batch without its malformed records.
WellFormedRecords(batch) ==
    [batch EXCEPT !.nodes = SelectSeq(@, HasId),
                  !.relationships = SelectSeq(@, HasEndpointsAndType)]

\* The builder after ingest_batch on each batch of the list, in order.
RECURSIVE IngestAll(_, _)
IngestAll(b, batches) ==
    IF batches = <<>> THEN b
    ELSE IngestAll(ingest_batch(b, Head(batches).nodes, Head(batches).relationships,
                                Head(batches).source_file, Head(batches).source_kind),
                   Tail(batches))

\* C19: while batches are ingested, the nodes, the relationships and the
\* upsert counters of the store are those of a store that was given the same
\* batches without the node records that have no id and the relationship
\* records that have no source, target or type: a malformed record creates or
\* changes nothing, and the other records of its batch are ingested.
C19_MalformedRecordIsolation ==
    store.phase = "ingest" =>
        \A clean \in {IngestAll(NewBuilder, [i \in 1..Len(store.batch_log) |->
                                                 WellFormedRecords(store.batch_log[i])])} :
            /\ store.nodes = clean.nodes
            /\ store.relationships = clean.relationships
            /\ store.stats.node_upserts = clean.stats.node_upserts
            /\ store.stats.relationship_upserts = clean.stats.relationship_upserts

\* C24: after finalize(), no two nodes the final pass folded into one node had
\* coarse domains that were both present and different.
C24_DomainCompatibleMerges ==
    store.phase = "finalized" =>
        \A i, j \in 1..Len(store.prepass) :
            (i # j /\ GetOrSelf(store.remap, store.prepass[i].id)
                        = GetOrSelf(store.remap, store.prepass[j].id))
                => can_merge_nodes(store.prepass[i], store.prepass[j])

\* C25: a relationship of the store none of whose endpoints is a node the
\* final reconciliation removed is still in the store after finalize().
C25_RelationshipLifecycle ==
    store.phase = "finalized" =>
        \A i \in 1..Len(store.prepass_relationships) :
            \A rel \in {store.prepass_relationships[i]} :
                (rel.source \notin DOMAIN store.remap /\ rel.target \notin DOMAIN store.remap)
                    => \E k \in 1..Len(store.relationships) :
                          RelKeyOf(store.relationships[k]) = RelKeyOf(rel)

\* The key finalize() stores the relationship under.
RemappedKey(remap, rel) ==
    <<GetOrSelf(remap, rel.source), GetOrSelf(remap, rel.target), rel.type>>

\* C26: when finalize() remaps two relationships of the store onto one key,
\* the confidence of the record that survives ranks at least as high as the
\* confidence of each of the two.
C26_ConfidenceAcrossReconciliation ==
    store.phase = "finalized" =>
        \A i, j \in 1..Len(store.prepass_relationships) :
            (i < j /\ RemappedKey(store.remap, store.prepass_relationships[i])
                        = RemappedKey(store.remap, store.prepass_relationships[j]))
                => \A k \in 1..Len(store.relationships) :
                       RelKeyOf(store.relationships[k])
                           = RemappedKey(store.remap, store.prepass_relationships[i])
                       => /\ RankOf(store.relationships[k].properties)
                                >= RankOf(store.prepass_relationships[i].properties)
                          /\ RankOf(store.relationships[k].properties)
                                >= RankOf(store.prepass_relationships[j].properties)

\* C27: while batches are ingested, every value of the alias map is the id of
\* a node of the store, every node id of the store is an alias of itself, and
\* resolving an alias twice gives what resolving it once gives.
C27_AliasMapFlat ==
    store.phase = "ingest" =>
        /\ \A x \in DOMAIN store.aliases :
              /\ store.aliases[x] \in NodeIds(store.nodes)
              /\ store.aliases[x] \in DOMAIN store.aliases
              /\ store.aliases[store.aliases[x]] = store.aliases[x]
        /\ \A c \in NodeIds(store.nodes) :
              c \in DOMAIN store.aliases /\ store.aliases[c] = c

\* Two batches were ingested, a record was stored under an id that is not its
\* own, and a later record was merged into a node of the store.
C27_Witness ==
    /\ store.phase = "ingest"
    /\ store.batches >= 2
    /\ store.stats.node_merges > 0
    /\ \E x \in DOMAIN store.aliases : store.aliases[x] # x

\* C28: after finalize(), every node record given to ingest_batch is a node of
\* the store, or was merged into one by ingest_batch or by the final pass, and
\* every relationship record is a relationship of the store, or was merged
\* into one by ingest_batch or by finalize(), or was dropped by finalize().
C28_CounterConservation ==
    store.phase = "finalized" =>
        /\ store.stats.raw_node_records
              = Len(store.nodes) + store.stats.node_merges + store.stats.final_name_merges
        /\ store.stats.raw_relationship_records
              = Len(store.relationships) + store.stats.relationship_deduped
                  + store.stats.final_relationship_deduped
                  + store.stats.dropped_relationships_missing_endpoints

\* A finalized store where ingest_batch merged a node record and a relationship
\* record, the final pass folded a node, and finalize() merged one relationship
\* and dropped another.
C28_Witness ==
    /\ store.phase = "finalized"
    /\ store.stats.node_merges > 0
    /\ store.stats.relationship_deduped > 0
    /\ store.stats.final_name_merges > 0
    /\ store.stats.final_relationship_deduped > 0
    /\ store.stats.dropped_relationships_missing_endpoints > 0
    /\ Len(store.nodes) > 0
    /\ Len(store.relationships) > 0

\* C30: while batches are ingested, a node record whose raw id an earlier
\* record had is stored under the id the earlier record was stored under and is
\* merged into that node; and ingesting again a batch that was ingested leaves
\* the number of nodes of the store as it is.
C30_StableResolution ==
    store.phase = "ingest" =>
        /\ \A i, j \in 1..Len(store.resolved) :
              (i < j /\ store.resolved[i].raw = store.resolved[j].raw)
                  => /\ store.resolved[j].id = store.resolved[i].id
                     /\ store.resolved[j].merged
        /\ \A k \in 1..Len(store.batch_log) :
              \A batch \in {store.batch_log[k]} :
                  Len(ingest_batch(store, batch.nodes, batch.relationships,
                                   batch.source_file, batch.source_kind).nodes)
                      = Len(store.nodes)

\* A record was stored under an id derived from its name, and a later record
\* with the same raw id, for which the rules alone give another id, was
\* ingested from a file of another kind.
C30_Witness ==
    /\ store.phase = "ingest"
    /\ \E i, j \in 1..Len(store.resolved) :
          /\ i < j
          /\ store.resolved[i].raw = store.resolved[j].raw
          /\ store.resolved[i].id # store.resolved[i].raw
          /\ \E k \in 1..Len(store.batch_log) :
                \E n \in 1..Len(store.batch_log[k].nodes) :
                    /\ canonicalize_id(store.batch_log[k].nodes[n].id) = store.resolved[j].raw
                    /\ canonical_node_id_by_rules(<<>>, store.batch_log[k].nodes[n],
                                                  store.batch_log[k].source_kind)
                           # store.resolved[j].id

----------------------------------------------------------------------------
(* The rules of the builder, each applied to one record or to two records *)

RuleIds == {<<>>, <<"p", "1">>, <<"p", "u", "m", "p", "_", "s", "y", "s", "t", "e", "m">>,
            <<"h", "y", "d", "r", "a", "u", "l", "i", "c", " ", "p", "u", "m", "p", " ", "0", "1">>}

RuleNames == {<<>>, <<"P", "u", "m", "p">>,
              <<"H", "y", "d", "r", "a", "u", "l", "i", "c", " ", "P", "u", "m", "p">>}

RuleNodeTypes == {Absent, <<"E", "n", "t", "i", "t", "y">>, <<"C", "o", "n", "c", "e", "p", "t">>}

RuleKinds == {"csv", "markdown"}

\* Alias maps the builder can hold when the record arrives.
RuleAliases ==
    {<<>>,
     [x \in {<<"p", "1">>} |-> <<"p", "u", "m", "p">>],
     [x \in {<<"h", "y", "d", "r", "a", "u", "l", "i", "c", "_", "p", "u", "m", "p">>} |-> <<"h", "p">>],
     [x \in {<<"u", "n", "k", "n", "o", "w", "n">>} |-> <<"u", "n", "k", "n", "o", "w", "n">>]}

InitRules ==
    /\ nodes \in {<<StoreNode(id, <<>>, name, <<>>, <<>>, node_type)>> :
                     <<id, name, node_type>> \in RuleIds \X RuleNames \X RuleNodeTypes}
    /\ store \in {[NewBuilder EXCEPT !.aliases = a] : a \in RuleAliases}
    /\ candidates = <<>>
    /\ judge = <<>>
    /\ pc = "rules"
    /\ idx = 1
    /\ reviewed = <<>>
    /\ merge_edges = <<>>
    /\ cross_type_suggestions = 0
    /\ processed_pairs = {}
    /\ evaluated = 0
    /\ prior_evaluated = 0
    /\ checkpoint = NoCheckpoint
    /\ merge_map = <<>>
    /\ answers = <<>>
    /\ cancels = 0
    /\ runs = 0
    /\ relationships = <<>>
    /\ probe = NoProbe

rulesUnchanged ==
    UNCHANGED <<nodes, candidates, judge, idx, reviewed, merge_edges,
                cross_type_suggestions, processed_pairs, evaluated, prior_evaluated,
                checkpoint, merge_map, answers, cancels, runs, relationships, store>>

\* self._canonical_node_id(node, source_kind_value)
ResolveCanonicalId ==
    /\ pc = "rules"
    /\ \E kind \in RuleKinds :
          probe' = [op |-> "canonical_id", kind |-> kind,
                    result |-> canonical_node_id(store.aliases, nodes[1], kind)]
    /\ pc' = "applied"
    /\ rulesUnchanged

\* self._merge_node_records(existing, incoming) for the record of the store and
\* a record of the same node that arrives under another name from a source of
\* either kind.
MergeNodeRecords ==
    /\ pc = "rules"
    /\ \E existing_kind \in RuleKinds, incoming_kind \in RuleKinds, name \in RuleNames :
          \E existing \in {normalize_node(store.aliases, nodes[1], "a.md", existing_kind)} :
          \E incoming \in {normalize_node(store.aliases,
                                           [nodes[1] EXCEPT !.properties.name = name],
                                           "b.md", incoming_kind)} :
              probe' = [op |-> "merge_records", existing |-> existing, incoming |-> incoming,
                        merged |-> merge_node_records(existing, incoming)]
    /\ pc' = "applied"
    /\ rulesUnchanged

NextRules == ResolveCanonicalId \/ MergeNodeRecords

SpecRules == InitRules /\ [][NextRules]_vars

\* The id of the record as the rules see it: normalized, <<>> when the record
\* has none; and the id derived from its name, <<>> when it has no name.
RawIdOf(node) == normalize_token(node.id)
NameIdOf(node) == IF node.properties.name # <<>> THEN canonicalize_id(node.properties.name) ELSE <<>>

IsEntity(node) ==
    node.properties.node_type # Absent
        /\ Lower(node.properties.node_type) = <<"e", "n", "t", "i", "t", "y">>

Sentinels == {<<"u", "n", "k", "n", "o", "w", "n">>,
              <<"u", "n", "k", "n", "o", "w", "n", "_", "n", "o", "d", "e">>}

\* C21: the canonical id is (1) the alias-mapped id when the raw id, else the
\* name-derived id, is in the alias map; otherwise (2) for an entity with a
\* name-derived id, that id when the raw id ends in _system/_module or the
\* name-derived id is no longer than the raw id; otherwise (3) the name-derived
\* id for a csv source; otherwise (4) the raw id, or the name-derived id when
\* the record has no raw id, or a fixed sentinel when it has neither.
C21_CanonicalIdRuleOrder ==
    probe.op = "canonical_id" =>
        \A raw \in {RawIdOf(nodes[1])} :
        \A name_id \in {NameIdOf(nodes[1])} :
            IF raw # <<>> /\ raw \in DOMAIN store.aliases
            THEN probe.result = store.aliases[raw]
            ELSE IF name_id # <<>> /\ name_id \in DOMAIN store.aliases
            THEN probe.result = store.aliases[name_id]
            ELSE IF /\ IsEntity(nodes[1])
                    /\ name_id # <<>>
                    /\ \/ EndsWith(raw, <<"_", "s", "y", "s", "t", "e", "m">>)
                       \/ EndsWith(raw, <<"_", "m", "o", "d", "u", "l", "e">>)
                       \/ Len(name_id) <= Len(raw)
            THEN probe.result = name_id
            ELSE IF probe.kind = "csv" /\ name_id # <<>>
            THEN probe.result = name_id
            ELSE IF raw # <<>> THEN probe.result = raw
            ELSE IF name_id # <<>> THEN probe.result = name_id
            ELSE probe.result \in Sentinels

\* C22: for the name (a string property other than description and domain),
\* when the existing and the incoming value are both non-empty, the merged
\* record keeps the value of the higher-priority source, whichever side it is
\* on, and for equal priorities the longer string (the existing one on equal
\* length).
C22_GenericStringReconciliation ==
    (probe.op = "merge_records"
        /\ probe.existing.properties.name # <<>>
        /\ probe.incoming.properties.name # <<>>) =>
        probe.merged.properties.name =
            IF probe.incoming.source_priority > probe.existing.source_priority
            THEN probe.incoming.properties.name
            ELSE IF probe.existing.source_priority > probe.incoming.source_priority
            THEN probe.existing.properties.name
            ELSE IF Len(probe.existing.properties.name) >= Len(probe.incoming.properties.name)
            THEN probe.existing.properties.name
            ELSE probe.incoming.properties.name

----------------------------------------------------------------------------
(* scripts/combine_eec_json_for_neo4j.py *)

\* A key that holds None.
Null == <<"null">>

\* _is_empty on a value that is None or a string
is_empty(value) == value = Null

\* _clean_dict: the keys with an empty value are dropped.
clean_dict(data) == [k \in DOMAIN data |-> IF is_empty(data[k]) THEN Absent ELSE data[k]]

\* _merge_properties(base, incoming): base afterwards.
merge_properties(base, incoming) ==
    [k \in DOMAIN base |->
        IF incoming[k] # Absent /\ (base[k] = Absent \/ is_empty(base[k]))
        THEN incoming[k] ELSE base[k]]

CombinedAt == <<"T", "1">>

\* The properties _combine_eec_files gives _add_node for an entity (lines 108-114).
EntityProperties(entity) ==
    merge_properties(
        merge_properties(clean_dict([description |-> entity.properties.description,
                                     concepts |-> Absent, source_chunk |-> Absent,
                                     combined_at |-> Absent]),
                         clean_dict([description |-> Absent, concepts |-> entity.concepts,
                                     source_chunk |-> entity.source_chunk,
                                     combined_at |-> Absent])),
        [description |-> Absent, concepts |-> Absent, source_chunk |-> Absent,
         combined_at |-> CombinedAt])

\* _add_node(nodes, node_id, labels, properties): nodes afterwards, in insertion order.
add_node(nodeList, node_id, labels, properties) ==
    LET label_list == SortedLabels({l \in RangeOf(labels) : l # ""})
        at == {i \in 1..Len(nodeList) : nodeList[i].id = node_id}
    IN  IF node_id = <<>> THEN nodeList
        ELSE IF at = {}
        THEN Append(nodeList, [id |-> node_id, labels |-> label_list, properties |-> properties])
        ELSE [i \in 1..Len(nodeList) |->
                 IF i \in at
                 THEN [nodeList[i] EXCEPT
                          !.labels = SortedLabels(RangeOf(@) \cup RangeOf(label_list)),
                          !.properties = merge_properties(@, properties)]
                 ELSE nodeList[i]]

\* if temporal_info: a dict with at least one key
HasKeys(d) == \E k \in DOMAIN d : d[k] # Absent

\* _add_relationship(relationships, source, target, rel_type, properties, temporal_info)
add_relationship(rels, source, target, rel_type, properties, temporal_info) ==
    LET at == {i \in 1..Len(rels) :
                  <<rels[i].source, rels[i].type, rels[i].target>> = <<source, rel_type, target>>}
    IN  IF source = <<>> \/ target = <<>> \/ rel_type = <<>> THEN rels
        ELSE IF at = {}
        THEN Append(rels, [source |-> source, target |-> target, type |-> rel_type,
                           properties |-> properties, temporal_info |-> temporal_info])
        ELSE [i \in 1..Len(rels) |->
                 IF i \in at
                 THEN [rels[i] EXCEPT
                          !.properties = merge_properties(@, properties),
                          !.temporal_info =
                              IF ~HasKeys(temporal_info) THEN @
                              ELSE IF HasKeys(@) THEN merge_properties(@, temporal_info)
                              ELSE temporal_info]
                 ELSE rels[i]]

\* The properties and temporal_info _combine_eec_files gives _add_relationship
\* (lines 155-165).
RelationshipProperties(rel) ==
    merge_properties(clean_dict([description |-> rel.properties.description,
                                 combined_at |-> Absent]),
                     [description |-> Absent, combined_at |-> CombinedAt])

RelationshipTemporal(rel) == clean_dict(rel.temporal_info)

----------------------------------------------------------------------------
(* The merge operations, each applied to two records that meet *)

MergeNames == {<<>>, <<"P", "u", "m", "p">>}
MergeDescriptions == {<<>>, <<"d">>, <<"d", "d">>}
MergeDomains == {<<>>, <<"h", "a", "r", "d", "w", "a", "r", "e">>, <<"?", "?">>, <<"W", "a", "r", "e", "h", "o", "u", "s", "e", " ", "M", "a", "n", "a", "g", "e", "m", "e", "n", "t">>}
MergeKinds == {"markdown", "csv"}

\* The node records of extraction results that carry the id given.
MergeRawNodes(id) ==
    {StoreNode(id, <<>>, name, description, domain, Absent) :
        <<name, description, domain>> \in MergeNames \X MergeDescriptions \X MergeDomains}

CombineValues == {Null, <<>>, <<"d">>}

CombineEntities ==
    {[id |-> Id1, type |-> "Pump", properties |-> [description |-> d],
      concepts |-> Null, source_chunk |-> c] :
        <<d, c>> \in (CombineValues \cup {Absent}) \X {Null, <<"c">>}}

CombineRelationships ==
    {[source |-> Id1, target |-> Id2, type |-> NameUses,
      properties |-> [description |-> d], temporal_info |-> [start |-> t]] :
        <<d, t>> \in CombineValues \X {Absent, Null, <<"1">>}}

\* What one merge did: the properties of the record merged into before the
\* merge, those of the record merged in, and those of the merged record, for
\* the node and for the relationship the operation merged.
NoMerge == [op |-> "none", merged |-> 0, before |-> <<>>, incoming |-> <<>>, after |-> <<>>]

PropertiesById(nodeList, id) == NodeAt(nodeList, id).properties

MergePump == <<"p", "u", "m", "p">>
MergePumpSystem == <<"P", "u", "m", "p", " ", "S", "y", "s", "t", "e", "m">>

\* The stores that hold one node, after one batch was ingested.
MergeStores ==
    {ingest_batch(NewBuilder, <<e>>, <<>>, "a.md", ke) :
        <<e, ke>> \in MergeRawNodes(MergePump) \X MergeKinds}

\* The graphs handed to the dedupe run: two nodes, each with a relationship to
\* a third node.
MergeNodeLists ==
    {<<DedupeNode(Id1, <<"Entity">>, n1, d1), DedupeNode(Id2, <<"Entity">>, n2, d2)>> :
        <<n1, d1, n2, d2>> \in MergeNames \X MergeDescriptions \X MergeNames \X MergeDescriptions}

MergeRelationshipLists ==
    {<<[DedupeRel(Id1, NameUses, Id3, r1) EXCEPT !.temporal_info.start = t1],
       [DedupeRel(Id2, NameUses, Id3, r2) EXCEPT !.temporal_info.start = t2]>> :
        <<r1, t1, r2, t2>> \in {<<>>, <<"d">>} \X {<<>>, <<"1">>} \X {<<>>, <<"d">>} \X {<<>>, <<"1">>}}

InitMerge ==
    /\ candidates = <<>>
    /\ judge = <<>>
    /\ pc = "merge"
    /\ idx = 1
    /\ reviewed = <<>>
    /\ merge_edges = <<>>
    /\ cross_type_suggestions = 0
    /\ processed_pairs = {}
    /\ evaluated = 0
    /\ prior_evaluated = 0
    /\ checkpoint = NoCheckpoint
    /\ merge_map = <<>>
    /\ answers = <<>>
    /\ cancels = 0
    /\ runs = 0
    /\ probe = NoMerge
    /\ \/ /\ store \in MergeStores
          /\ nodes = <<>>
          /\ relationships = <<>>
       \/ /\ store = NoStore
          /\ nodes \in MergeNodeLists
          /\ relationships \in MergeRelationshipLists
       \/ /\ store = NoStore
          /\ nodes = <<>>
          /\ relationships = <<>>

mergeUnchanged ==
    UNCHANGED <<candidates, judge, idx, reviewed, merge_edges,
                cross_type_suggestions, processed_pairs, evaluated, prior_evaluated,
                checkpoint, merge_map, answers, cancels, runs>>

\* ingest_batch of a node whose canonical id is already in the store.
IngestMerge ==
    /\ pc = "merge"
    /\ store # NoStore
    /\ \E i \in MergeRawNodes(MergePump), ki \in MergeKinds :
          \E b2 \in {ingest_batch(store, <<i>>, <<>>, "b.md", ki)} :
          \E id \in {store.nodes[1].id} :
              /\ probe' = [op |-> "ingest", merged |-> b2.stats.node_merges,
                           before |-> [node |-> PropertiesById(store.nodes, id)],
                           incoming |-> [node |-> normalize_node(store.aliases, i, "b.md", ki).properties],
                           after |-> [node |-> PropertiesById(b2.nodes, id)]]
              /\ store' = b2
    /\ pc' = "merged"
    /\ UNCHANGED <<nodes, relationships>>
    /\ mergeUnchanged

\* finalize() of a store that holds two nodes of one name group.
ReconcileMerge ==
    /\ pc = "merge"
    /\ store # NoStore
    /\ \E i \in MergeRawNodes(MergePumpSystem), ki \in MergeKinds :
          \E b2 \in {ingest_batch(store, <<i>>, <<>>, "b.md", ki)} :
          \E f \in {finalize(b2)} :
          \E primary \in {f.nodes[1].id} :
          \E folded \in {{c \in NodeIds(b2.nodes) : GetOrSelf(f.remap, c) = primary /\ c # primary}} :
              /\ probe' = [op |-> "reconcile", merged |-> f.stats.final_name_merges,
                           before |-> [node |-> PropertiesById(b2.nodes, primary)],
                           incoming |-> [node |-> IF folded = {} THEN PropertiesById(b2.nodes, primary)
                                           ELSE PropertiesById(b2.nodes, CHOOSE c \in folded : TRUE)],
                           after |-> [node |-> PropertiesById(f.nodes, primary)]]
              /\ store' = f
    /\ pc' = "merged"
    /\ UNCHANGED <<nodes, relationships>>
    /\ mergeUnchanged

FlatProperties(rel) ==
    [description |-> rel.properties.description, evidence |-> rel.properties.evidence,
     start |-> rel.temporal_info.start]

\* _merge_nodes and _merge_relationships of the dedupe run for a cluster of the
\* two nodes.
DedupeMerge ==
    /\ pc = "merge"
    /\ nodes # <<>>
    /\ \E canonical \in {Id1, Id2} :
          \E map \in {IF canonical = Id1 THEN [x \in {Id2} |-> Id1] ELSE [x \in {Id1} |-> Id2]} :
          \E outNodes \in {MergeNodes(nodes, map)} :
          \E outRels \in {MergeRelationships(relationships, map)} :
              /\ probe' = [op |-> "dedupe", merged |-> Len(nodes) - Len(outNodes),
                           before |-> [node |-> nodes[1].properties,
                                      relationship |-> FlatProperties(relationships[1])],
                           incoming |-> [node |-> nodes[2].properties,
                                      relationship |-> FlatProperties(relationships[2])],
                           after |-> [node |-> outNodes[1].properties,
                                      relationship |-> FlatProperties(outRels[1])]]
              /\ nodes' = outNodes
              /\ relationships' = outRels
    /\ pc' = "merged"
    /\ UNCHANGED store
    /\ mergeUnchanged

CombineFlat(properties, temporal_info) ==
    [description |-> properties.description, combined_at |-> properties.combined_at,
     start |-> temporal_info.start]

\* _combine_eec_files for two files that hold the same entity and the same
\* relationship (lines 103-165).
CombineMerge ==
    /\ pc = "merge"
    /\ store = NoStore
    /\ nodes = <<>>
    /\ \E e1 \in CombineEntities, e2 \in CombineEntities,
          r1 \in CombineRelationships, r2 \in CombineRelationships :
          LET nodes1 == add_node(<<>>, e1.id, <<"Entity", e1.type>>, EntityProperties(e1))
              nodes2 == add_node(nodes1, e2.id, <<"Entity", e2.type>>, EntityProperties(e2))
              rels1 == add_relationship(<<>>, r1.source, r1.target, r1.type,
                                        RelationshipProperties(r1), RelationshipTemporal(r1))
              rels2 == add_relationship(rels1, r2.source, r2.target, r2.type,
                                        RelationshipProperties(r2), RelationshipTemporal(r2))
          IN  probe' = [op |-> "combine", merged |-> 2 - Len(nodes2),
                        before |-> [node |-> nodes1[1].properties,
                                   relationship |-> CombineFlat(rels1[1].properties, rels1[1].temporal_info)],
                        incoming |-> [node |-> EntityProperties(e2),
                                   relationship |-> CombineFlat(RelationshipProperties(r2),
                                                       RelationshipTemporal(r2))],
                        after |-> [node |-> nodes2[1].properties,
                                   relationship |-> CombineFlat(rels2[1].properties, rels2[1].temporal_info)]]
    /\ pc' = "merged"
    /\ UNCHANGED <<nodes, relationships, store>>
    /\ mergeUnchanged

NextMerge == IngestMerge \/ ReconcileMerge \/ DedupeMerge \/ CombineMerge

SpecMerge == InitMerge /\ [][NextMerge]_vars

\* null, the empty string, or a key the record does not hold
IsEmptyProperty(value) == value \in {Absent, Null, <<>>}

\* C6: in every merge (on ingest, in the final reconciliation, of a dedupe
\* cluster's nodes and relationships, in the combine step) a property that was
\* not empty in the record merged into is not empty in the merged record.
C6_NonDestructiveMerge ==
    \A t \in DOMAIN probe.before :
        \A k \in DOMAIN probe.before[t] :
            ~IsEmptyProperty(probe.before[t][k]) => ~IsEmptyProperty(probe.after[t][k])

\* The final reconciliation folded a node holding no description into one
\* holding a description and a domain, and the merged node holds both.
C6_Witness ==
    /\ probe.op = "reconcile"
    /\ probe.merged = 1
    /\ probe.before["node"].description # <<>>
    /\ probe.incoming["node"].description = <<>>
    /\ probe.before["node"].domain # <<>>
    /\ probe.incoming["node"].domain # <<>>
    /\ probe.after["node"].description = probe.before["node"].description
    /\ probe.after["node"].domain # <<>>

====
